---------------------------- MODULE Spec2Model ----------------------------
(***************************************************************************)
(* The quiz tools of src/tools/quiz_tools.py: the quiz state kept in the   *)
(* session's UserData, the five tools, and the RPC exchange with the       *)
(* frontend that ends create_quiz, submit_answer, skip_question and        *)
(* show_quiz_results.                                                      *)
(*                                                                         *)
(* A Python string is a sequence of chunks: a chunk is one character       *)
(* where the code looks at characters (answers, topics, difficulties,      *)
(* rendered numbers) and a whole piece of literal text elsewhere.  An      *)
(* f-string is the concatenation of its pieces.                            *)
(*                                                                         *)
(* A tool call is two steps: the synchronous part up to the await, and     *)
(* the resumption with the outcome of asyncio.wait_for.  A call that       *)
(* returns before the await is one step.                                   *)
(***************************************************************************)
EXTENDS Integers, Sequences, FiniteSets, TLC

\* ------------------------------------------------------------------ bounds

\* create_quiz calls explored in one session (the history grows by one each)
MaxQuizzes == 2
\* tool calls that may be suspended at their await at once
MaxInFlight == 2
\* the components a session creates
MaxComponents == 2

\* --------------------------------------------------------------- constants

\* max(1, min(10, num_questions))
MinQuestions == 1
MaxQuestions == 10


\* -------------------------------------------------------------------- state

VARIABLES
  current_quiz,   \* userdata.current_quiz: None or Some(id of a Quiz object)
  quizzes,        \* the Quiz objects still referenced, by id
  quiz_history,   \* userdata.quiz_history: a list of dicts
  room,           \* whether userdata.ctx and userdata.ctx.room are set
  participants,   \* room.remote_participants, identities in enumeration order
  calls,          \* the tool calls suspended at their await, by slot
  last,           \* the outcome of the tool call that ended last
  other,          \* the session whose tools run, and the UserData of the other one
  components,     \* userdata.components: a list of Component
  last_canvas_drawing  \* userdata.last_canvas_drawing: None or Some(dict)

vars == <<current_quiz, quizzes, quiz_history, room, participants, calls, last, other,
          components, last_canvas_drawing>>

\* ----------------------------------------------------------------- strings

LowerLetters == <<"a", "b", "c", "d", "e", "f", "g", "h", "i", "j", "k", "l", "m",
                  "n", "o", "p", "q", "r", "s", "t", "u", "v", "w", "x", "y", "z">>
UpperLetters == <<"A", "B", "C", "D", "E", "F", "G", "H", "I", "J", "K", "L", "M",
                  "N", "O", "P", "Q", "R", "S", "T", "U", "V", "W", "X", "Y", "Z">>

LetterIndex(letters, c) ==
  IF \E i \in 1..26 : letters[i] = c
  THEN CHOOSE i \in 1..26 : letters[i] = c
  ELSE 0

UpperChar(c) ==
  IF LetterIndex(LowerLetters, c) > 0 THEN UpperLetters[LetterIndex(LowerLetters, c)] ELSE c

LowerChar(c) ==
  IF LetterIndex(UpperLetters, c) > 0 THEN LowerLetters[LetterIndex(UpperLetters, c)] ELSE c

RECURSIVE Upper(_)
\* str.upper()
Upper(s) == IF s = <<>> THEN <<>> ELSE <<UpperChar(Head(s))>> \o Upper(Tail(s))

RECURSIVE Lower(_)
\* str.lower()
Lower(s) == IF s = <<>> THEN <<>> ELSE <<LowerChar(Head(s))>> \o Lower(Tail(s))

Digits == <<"0", "1", "2", "3", "4", "5", "6", "7", "8", "9">>

RECURSIVE Str(_)
\* str(n) of a natural number, as an f-string renders it
Str(n) == IF n < 10 THEN <<Digits[n + 1]>> ELSE Str(n \div 10) \o <<Digits[(n % 10) + 1]>>

\* whether text `part` occurs in text `s` (Python's `part in s`)
Contains(s, part) ==
  \E i \in 0..(Len(s) - Len(part)) : SubSeq(s, i + 1, i + Len(part)) = part


\* ------------------------------------------------------------- data model

\* Optional[T]: None is the empty sequence, a value x is <<x>>
None == <<>>
Some(x) == <<x>>

\* uuid.uuid4(): the j-th identifier drawn by the k-th create_quiz call
Uuid(k, j) == k * 10 + j

\* QuizQuestion(id, question_text, options, correct_answer, explanation)
QuizQuestion(id, question_text, options, correct_answer, explanation) ==
  [id |-> id, question_text |-> question_text, options |-> options,
   correct_answer |-> correct_answer, explanation |-> explanation,
   user_answer |-> None, is_correct |-> None]

\* a Quiz that starts with the score of the quiz it replaces
NewQuizKeepingScore(id, topic, difficulty, questions) ==
  [id |-> id, topic |-> topic, difficulty |-> difficulty, questions |-> questions,
   current_question_index |-> 0,
   score |-> IF current_quiz = <<>> THEN 0 ELSE quizzes[current_quiz[1]].score,
   completed |-> FALSE]

\* the quiz fields of UserData at construction
UserDataDefaults == [current_quiz |-> None, quiz_history |-> <<>>]

\* Quiz(id, topic, difficulty, questions, current_question_index=0, score=0, completed=False)
NewQuiz(id, topic, difficulty, questions) ==
  [id |-> id, topic |-> topic, difficulty |-> difficulty, questions |-> questions,
   current_question_index |-> 0, score |-> 0, completed |-> FALSE]

s_algebra == <<"a", "l", "g", "e", "b", "r", "a">>
s_geometry == <<"g", "e", "o", "m", "e", "t", "r", "y">>
s_fractions == <<"f", "r", "a", "c", "t", "i", "o", "n", "s">>
s_easy == <<"e", "a", "s", "y">>
s_medium == <<"m", "e", "d", "i", "u", "m">>
s_hard == <<"h", "a", "r", "d">>

\* the question bank built by the k-th call of _generate_quiz_questions
sample_questions(k) ==
  [algebra |->
     << QuizQuestion(Uuid(k, 1), <<"What is 2x + 5 = 15? Solve for x.">>,
                     <<"A) x = 5", "B) x = 10", "C) x = 7", "D) x = 3">>, <<"A">>,
                     <<"Subtract 5 from both sides: 2x = 10, then divide by 2: x = 5">>),
        QuizQuestion(Uuid(k, 2), <<"Simplify: 3(x + 2) - 2x">>,
                     <<"A) x + 6", "B) 5x + 6", "C) x + 2", "D) 3x + 6">>, <<"A">>,
                     <<"3(x + 2) - 2x = 3x + 6 - 2x = x + 6">>) >>,
   geometry |->
     << QuizQuestion(Uuid(k, 3), <<"What is the area of a rectangle with length 8 and width 5?">>,
                     <<"A) 13", "B) 40", "C) 26", "D) 32">>, <<"B">>,
                     <<"Area = length x width = 8 x 5 = 40">>) >>,
   fractions |->
     << QuizQuestion(Uuid(k, 4), <<"What is 1/2 + 1/4?">>,
                     <<"A) 2/6", "B) 3/4", "C) 1/6", "D) 2/4">>, <<"B">>,
                     <<"1/2 + 1/4 = 2/4 + 1/4 = 3/4">>) >>]

\* sample_questions.get(key, default)
CatalogGet(bank, key, default) ==
  CASE key = s_algebra -> bank.algebra
    [] key = s_geometry -> bank.geometry
    [] key = s_fractions -> bank.fractions
    [] OTHER -> default

\* questions[-num_questions:]: the last n elements
TakeLast(seq, n) ==
  SubSeq(seq, (IF n < Len(seq) THEN Len(seq) - n ELSE 0) + 1, Len(seq))

\* questions[:num_questions]
Take(seq, n) == SubSeq(seq, 1, IF n < Len(seq) THEN n ELSE Len(seq))

\* the lookup by the topic as spelled: sample_questions.get(topic, ...)
GenerateQuizQuestionsAsSpelled(k, topic, num_questions, difficulty) ==
  LET bank == sample_questions(k)
      questions == CatalogGet(bank, topic, bank.algebra)
  IN Take(questions, num_questions)

\* a question bank built once for the module: every call hands out the same
\* QuizQuestion objects, in the state the quiz that holds them has left them in
GenerateQuizQuestionsFromSharedBank(k, topic, num_questions, difficulty) ==
  LET bank == sample_questions(1)
      questions == CatalogGet(bank, Lower(topic), bank.algebra)
      Shared(q) ==
        LET held == {h \in UNION {{quizzes[id].questions[i] :
                                     i \in DOMAIN quizzes[id].questions} :
                                   id \in DOMAIN quizzes} : h.id = q.id}
        IN IF held = {} THEN q ELSE CHOOSE h \in held : TRUE
  IN Take([i \in DOMAIN questions |-> Shared(questions[i])], num_questions)

\* _generate_quiz_questions(topic, num_questions, difficulty), called for the k-th quiz
GenerateQuizQuestions(k, topic, num_questions, difficulty) ==
  LET bank == sample_questions(k)
      questions == CatalogGet(bank, Lower(topic), bank.algebra)
  IN Take(questions, num_questions)

Max(a, b) == IF a > b THEN a ELSE b
Min(a, b) == IF a < b THEN a ELSE b

\* num_questions = min(10, num_questions): no lower limit
ClampNumQuestionsNoFloor(num_questions) == Min(MaxQuestions, num_questions)

\* num_questions = max(1, min(10, num_questions))
ClampNumQuestions(num_questions) == Max(MinQuestions, Min(MaxQuestions, num_questions))

\* difficulty if difficulty in ["easy", "medium", "hard"] else "medium"
NormalizeDifficultyAsSpelled(difficulty) ==
  IF difficulty \in {s_easy, s_medium, s_hard} THEN difficulty ELSE s_medium

\* difficulty.lower() if difficulty.lower() in ["easy", "medium", "hard"] else "medium"
NormalizeDifficulty(difficulty) ==
  IF Lower(difficulty) \in {s_easy, s_medium, s_hard} THEN Lower(difficulty) ELSE s_medium

\* int(quiz.score // len(quiz.questions) * 100): the whole quotient first
PercentageOfWholeQuotient(score, total) == (score \div total) * 100

\* int(quiz.score / len(quiz.questions) * 100); for the totals 1..10 a quiz can
\* have, the float product truncates to the integer quotient of score * 100
Percentage(score, total) == (score * 100) \div total

\* f"{quiz.score}/{len(quiz.questions)}"
ScoreOutOf(quiz) == Str(quiz.score) \o <<"/">> \o Str(Len(quiz.questions))


\* ------------------------------------------------------------ call records

Slots == 1..MaxInFlight

Identities == {"student", "observer"}

Idle == [tool |-> "idle"]

\* `active` is the session whose UserData current_quiz and quiz_history hold;
\* the other session's UserData is kept here
OtherSession(active, cur, hist) ==
  [active |-> active, current_quiz |-> cur, quiz_history |-> hist]
NoReply == [tool |-> "none"]

\* a tool call that ended by returning `text`
Return(tool, cause, text) ==
  [tool |-> tool, kind |-> "return", text |-> text, cause |-> cause, detail |-> <<>>]
\* like Return; `detail` is the frontend's error string or the exception's str(e)
ReturnWith(tool, cause, text, detail) ==
  [tool |-> tool, kind |-> "return", text |-> text, cause |-> cause, detail |-> detail]
\* a tool call that ended with an exception leaving the tool
Raise(tool, cause, exc) ==
  [tool |-> tool, kind |-> "raise", text |-> <<>>, cause |-> cause, detail |-> <<exc>>]

\* ------------------------------------------------------------ RPC exchange

\* reply bodies a frontend can send
BodyOk == "{\"ok\": true}"
BodyRejected == "{\"ok\": false, \"error\": \"quiz panel is closed\"}"
BodyRefused == "{\"ok\": false}"
BodyNotJson == "<html>502 Bad Gateway</html>"
BodyArray == "[1, 2]"
Bodies == {BodyOk, BodyRejected, BodyRefused, BodyNotJson, BodyArray}

FrontendError == <<"quiz panel is closed">>
JsonDecodeText == <<"Expecting value: line 1 column 1 (char 0)">>
AttributeErrorText == <<"'list' object has no attribute 'get'">>
IndexErrorText == <<"list index out of range">>
TransportText == <<"connection lost">>

\* what `await asyncio.wait_for(perform_rpc(...), timeout=RPC_TIMEOUT)` can end with
Outcomes ==
  [kind : {"reply"}, body : Bodies]
    \cup {[kind |-> "timeout"], [kind |-> "transport", detail |-> TransportText]}

\* the ghost name of an outcome
CauseOf(outcome) ==
  CASE outcome.kind = "timeout" -> "timeout"
    [] outcome.kind = "transport" -> "transport"
    [] outcome.body = BodyOk -> "ok"
    [] outcome.body = BodyRejected -> "rejected"
    [] outcome.body = BodyRefused -> "rejected_no_error"
    [] outcome.body = BodyNotJson -> "not_json"
    [] OTHER -> "not_object"

\* json.loads(result)
JsonLoads(body) ==
  CASE body = BodyOk -> [exc |-> "none", type |-> "dict", value |-> [ok |-> TRUE]]
    [] body = BodyRejected ->
         [exc |-> "none", type |-> "dict", value |-> [ok |-> FALSE, error |-> FrontendError]]
    [] body = BodyRefused -> [exc |-> "none", type |-> "dict", value |-> [ok |-> FALSE]]
    [] body = BodyArray -> [exc |-> "none", type |-> "list", value |-> <<1, 2>>]
    [] OTHER -> [exc |-> "JSONDecodeError", type |-> "none", value |-> <<>>]

\* the statements of a try block from the await to response.get: the parsed
\* response, or the exception raised on the way
AwaitAndParse(outcome) ==
  IF outcome.kind = "timeout" THEN [exc |-> "TimeoutError", text |-> <<>>]
  ELSE IF outcome.kind = "transport" THEN [exc |-> "RpcError", text |-> outcome.detail]
  ELSE LET parsed == JsonLoads(outcome.body) IN
       IF parsed.exc # "none" THEN [exc |-> parsed.exc, text |-> JsonDecodeText]
       ELSE IF parsed.type # "dict" THEN [exc |-> "AttributeError", text |-> AttributeErrorText]
       ELSE [exc |-> "none", response |-> parsed.value]

\* response.get("ok")
ResponseOk(response) == "ok" \in DOMAIN response /\ response.ok

\* response.get("error", "Unknown error")
ResponseError(response) ==
  IF "error" \in DOMAIN response THEN response.error ELSE <<"Unknown error">>

\* `except asyncio.TimeoutError`
CatchesTimeoutError(exc) == exc = "TimeoutError"

\* `except RpcError`: a handler for transport failures only
CatchesRpcErrorOnly(exc) == exc \in {"RpcError"}

\* `except Exception`
CatchesException(exc) ==
  exc \in {"TimeoutError", "RpcError", "JSONDecodeError", "AttributeError", "IndexError"}


\* ------------------------------------------------------------ tool helpers

\* the Quiz objects something still refers to: userdata.current_quiz and the
\* local `quiz` of every suspended call, in either session
Referenced(objects, cur, cs) ==
  LET ids == {cur[i] : i \in DOMAIN cur}
                \cup {other.current_quiz[i] : i \in DOMAIN other.current_quiz}
                \cup {cs[sl].quiz : sl \in {t \in DOMAIN cs : cs[t] # Idle}}
  IN [id \in ids \cap DOMAIN objects |-> objects[id]]

\* how a tool call's synchronous part ends: suspended at the await ...
Suspend(call) == [suspend |-> TRUE, call |-> call]
\* ... or with the tool's result
Done(result) == [suspend |-> FALSE, result |-> result]

\* the step of a tool call from its entry to its await or its end
Step(slot, cur, objects, hist, end) ==
  /\ current_quiz' = cur
  /\ quiz_history' = hist
  /\ calls' = IF end.suspend THEN [calls EXCEPT ![slot] = end.call] ELSE calls
  /\ last' = IF end.suspend THEN NoReply ELSE end.result
  /\ quizzes' = Referenced(objects, cur, calls')
  /\ UNCHANGED <<room, participants, other, components,
               last_canvas_drawing>>

\* the participant enumerated last
LastParticipant == participants[Len(participants)]

\* next(iter(participants.values()), None)
FirstParticipant == Head(participants)

\* ------------------------------------------------------------- create_quiz

\* the Quiz objects created so far, in both sessions: the k-th gets the k-th
\* value of uuid.uuid4()
Created == Len(quiz_history) + Len(other.quiz_history)

\* the history record create_quiz appends
HistoryRecord(k, quiz) ==
  [id |-> quiz.id, topic |-> quiz.topic, difficulty |-> quiz.difficulty,
   status |-> "in_progress", created_at |-> Uuid(k, 5)]

StartQuizPayload(quiz) ==
  [action |-> "start_quiz", quiz_id |-> quiz.id, topic |-> quiz.topic,
   difficulty |-> quiz.difficulty, total_questions |-> Len(quiz.questions),
   question |-> [index |-> 0, question_text |-> quiz.questions[1].question_text,
                 options |-> quiz.questions[1].options,
                 question_id |-> quiz.questions[1].id]]

\* create_quiz from "Send quiz to frontend" to the await
CreateQuizSend(quiz, num_questions) ==
  IF ~room
  THEN Done(Return("create_quiz", "no_room",
              <<"Created a ">> \o Str(num_questions) \o <<"-question quiz on ">>
                \o quiz.topic \o <<", but couldn't display it">>))
  ELSE IF participants = <<>>
  THEN Done(Return("create_quiz", "no_peer",
              <<"Quiz created, but no participants found to send it to">>))
  ELSE IF quiz.questions = <<>>
  THEN Done(ReturnWith("create_quiz", "index_error",
              <<"Created quiz but encountered an error displaying it: ">> \o IndexErrorText,
              IndexErrorText))
  ELSE Suspend([tool |-> "create_quiz", quiz |-> quiz.id, dest |-> FirstParticipant,
                payload |-> StartQuizPayload(quiz), num_questions |-> num_questions,
                sent |-> 1])

\* create_quiz from the await's end to its return
CreateQuizResult(call, quiz, outcome) ==
  LET r == AwaitAndParse(outcome) IN
  IF r.exc = "none"
  THEN IF ResponseOk(r.response)
       THEN Return("create_quiz", CauseOf(outcome),
              <<"I've created a ">> \o quiz.difficulty \o <<" ">> \o quiz.topic
                \o <<" quiz with ">> \o Str(call.num_questions)
                \o <<" questions. Let's start with question 1!">>)
       ELSE ReturnWith("create_quiz", CauseOf(outcome),
              <<"Created quiz but couldn't display it: ">> \o ResponseError(r.response),
              ResponseError(r.response))
  ELSE IF CatchesTimeoutError(r.exc)
  THEN Return("create_quiz", CauseOf(outcome),
         <<"Quiz created but the display timed out. Please try again.">>)
  ELSE IF CatchesException(r.exc)
  THEN ReturnWith("create_quiz", CauseOf(outcome),
         <<"Created quiz but encountered an error displaying it: ">> \o r.text, r.text)
  ELSE Raise("create_quiz", CauseOf(outcome), r.exc)

\* a create_quiz that closes the records of the quizzes it abandons
CreateQuizClosingAbandoned(slot, topic, num_questions, difficulty) ==
  /\ calls[slot] = Idle
  /\ Len(quiz_history) < MaxQuizzes
  /\ LET k == Created + 1
         n == ClampNumQuestions(num_questions)
         d == NormalizeDifficulty(difficulty)
         questions == GenerateQuizQuestions(k, topic, n, d)
         quiz == NewQuiz(Uuid(k, 0), topic, d, questions)
         closed == [i \in DOMAIN quiz_history |->
                      IF quiz_history[i].status = "in_progress"
                      THEN [quiz_history[i] EXCEPT !.status = "abandoned"]
                      ELSE quiz_history[i]]
     IN Step(slot, Some(quiz.id), (quiz.id :> quiz) @@ quizzes,
             Append(closed, HistoryRecord(k, quiz)),
             CreateQuizSend(quiz, n))

CreateQuiz(slot, topic, num_questions, difficulty) ==
  /\ calls[slot] = Idle
  /\ Len(quiz_history) < MaxQuizzes
  /\ LET k == Created + 1
         n == ClampNumQuestions(num_questions)
         d == NormalizeDifficulty(difficulty)
         questions == GenerateQuizQuestions(k, topic, n, d)
         quiz == NewQuiz(Uuid(k, 0), topic, d, questions)
     IN Step(slot, Some(quiz.id), (quiz.id :> quiz) @@ quizzes,
             Append(quiz_history, HistoryRecord(k, quiz)),
             CreateQuizSend(quiz, n))


\* ---------------------------------------------------- _show_next_question

\* the payload with progress.current counted from 0
NextQuestionPayloadProgressFromZero(quiz) ==
  LET next_question == quiz.questions[quiz.current_question_index + 1] IN
  [action |-> "next_question", quiz_id |-> quiz.id,
   question |-> [index |-> quiz.current_question_index,
                 question_text |-> next_question.question_text,
                 options |-> next_question.options,
                 question_id |-> next_question.id],
   progress |-> [current |-> quiz.current_question_index,
                 total |-> Len(quiz.questions), score |-> quiz.score]]

\* the payload with question.index counted from 1
NextQuestionPayloadOneBased(quiz) ==
  LET next_question == quiz.questions[quiz.current_question_index + 1] IN
  [action |-> "next_question", quiz_id |-> quiz.id,
   question |-> [index |-> quiz.current_question_index + 1,
                 question_text |-> next_question.question_text,
                 options |-> next_question.options,
                 question_id |-> next_question.id],
   progress |-> [current |-> quiz.current_question_index + 1,
                 total |-> Len(quiz.questions), score |-> quiz.score]]

NextQuestionPayload(quiz) ==
  LET next_question == quiz.questions[quiz.current_question_index + 1] IN
  [action |-> "next_question", quiz_id |-> quiz.id,
   question |-> [index |-> quiz.current_question_index,
                 question_text |-> next_question.question_text,
                 options |-> next_question.options,
                 question_id |-> next_question.id],
   progress |-> [current |-> quiz.current_question_index + 1,
                 total |-> Len(quiz.questions), score |-> quiz.score]]

\* _show_next_question up to the await
ShowNextQuestionSend(tool, quiz) ==
  IF ~room
  THEN Done(Return(tool, "no_room", <<"Moving to next question, but couldn't display it">>))
  ELSE IF participants = <<>>
  THEN Done(Return(tool, "no_peer", <<"No participants">>))
  ELSE IF quiz.current_question_index + 1 \notin DOMAIN quiz.questions
  THEN Done(ReturnWith(tool, "index_error", <<"Moving to next question">>, IndexErrorText))
  ELSE Suspend([tool |-> tool, helper |-> "_show_next_question", quiz |-> quiz.id,
                dest |-> FirstParticipant, payload |-> NextQuestionPayload(quiz),
                sent |-> 1])

\* _show_next_question from the await's end to its return
ShowNextQuestionResult(call, quiz, outcome) ==
  LET r == AwaitAndParse(outcome) IN
  IF r.exc = "none"
  THEN IF ResponseOk(r.response)
       THEN Return(call.tool, CauseOf(outcome),
              <<"Moving to question ">> \o Str(quiz.current_question_index + 1) \o <<".">>)
       ELSE ReturnWith(call.tool, CauseOf(outcome),
              <<"Next question ready (Question ">> \o Str(quiz.current_question_index + 1)
                \o <<")">>,
              ResponseError(r.response))
  ELSE IF CatchesException(r.exc)
  THEN ReturnWith(call.tool, CauseOf(outcome), <<"Moving to next question">>, r.text)
  ELSE Raise(call.tool, CauseOf(outcome), r.exc)

\* ------------------------------------------------------------ _complete_quiz

\* the loop over the history leaving at its first record
CompleteHistoryFirstRecord(hist, quiz, percentage) ==
  IF hist = <<>> THEN <<>>
  ELSE LET q == Head(hist) IN
       << IF q.id = quiz.id
          THEN [id |-> q.id, topic |-> q.topic, difficulty |-> q.difficulty,
                created_at |-> q.created_at, status |-> "completed",
                score |-> ScoreOutOf(quiz), percentage |-> percentage]
          ELSE q >>
         \o Tail(hist)

RECURSIVE CompleteHistory(_, _, _)
\* the loop "for q in userdata.quiz_history: if q["id"] == quiz.id: ..."
CompleteHistory(hist, quiz, percentage) ==
  IF hist = <<>> THEN <<>>
  ELSE LET q == Head(hist) IN
       << IF q.id = quiz.id
          THEN [id |-> q.id, topic |-> q.topic, difficulty |-> q.difficulty,
                created_at |-> q.created_at, status |-> "completed",
                score |-> ScoreOutOf(quiz), percentage |-> percentage]
          ELSE q >>
         \o CompleteHistory(Tail(hist), quiz, percentage)

CompleteQuizPayload(quiz, percentage) ==
  [action |-> "complete_quiz", quiz_id |-> quiz.id, score |-> quiz.score,
   total |-> Len(quiz.questions), percentage |-> percentage]

\* f"({percentage}%)"
InPercent(percentage) == <<" (">> \o Str(percentage) \o <<"%)">>

\* _complete_quiz after the history update, up to the await
CompleteQuizSend(tool, quiz, percentage) ==
  IF ~room
  THEN Done(Return(tool, "no_room",
              <<"Quiz completed! Final score: ">> \o ScoreOutOf(quiz) \o InPercent(percentage)))
  ELSE IF participants = <<>>
  THEN Done(Return(tool, "no_peer", <<"Quiz completed! Score: ">> \o ScoreOutOf(quiz)))
  ELSE Suspend([tool |-> tool, helper |-> "_complete_quiz", quiz |-> quiz.id,
                dest |-> FirstParticipant, payload |-> CompleteQuizPayload(quiz, percentage),
                percentage |-> percentage, sent |-> 1])

\* _complete_quiz from the await's end to its return
CompleteQuizResult(call, quiz, outcome) ==
  LET r == AwaitAndParse(outcome) IN
  IF r.exc = "none"
  THEN IF ResponseOk(r.response)
       THEN Return(call.tool, CauseOf(outcome),
              <<"Quiz completed! You scored ">> \o ScoreOutOf(quiz)
                \o InPercent(call.percentage) \o <<". Great job!">>)
       ELSE ReturnWith(call.tool, CauseOf(outcome),
              <<"Quiz completed! Score: ">> \o ScoreOutOf(quiz) \o InPercent(call.percentage),
              ResponseError(r.response))
  ELSE IF CatchesException(r.exc)
  THEN ReturnWith(call.tool, CauseOf(outcome),
         <<"Quiz completed! Final score: ">> \o ScoreOutOf(quiz) \o InPercent(call.percentage),
         r.text)
  ELSE Raise(call.tool, CauseOf(outcome), r.exc)

\* ------------------------------------------- submit_answer, skip_question

\* answer == current_question.correct_answer
IsCorrectCaseSensitive(answer, current_question) == answer = current_question.correct_answer

\* answer.upper() == current_question.correct_answer.upper()
IsCorrect(answer, current_question) == Upper(answer) = Upper(current_question.correct_answer)

\* quiz.score += 1 for every answer given
ScoredForEveryAnswer(quiz, is_correct) == [quiz EXCEPT !.score = @ + 1]

\* if is_correct: quiz.score += 1
Scored(quiz, is_correct) == [quiz EXCEPT !.score = IF is_correct THEN @ + 1 ELSE @]

\* the answer stored in quiz.questions[quiz.current_question_index - 1], which
\* for index 0 is Python's questions[-1], the last question
StoreAnswerAtPrevious(quiz, user_answer, is_correct) ==
  [quiz EXCEPT !.questions[IF quiz.current_question_index = 0
                           THEN Len(quiz.questions)
                           ELSE quiz.current_question_index] =
     [@ EXCEPT !.user_answer = Some(user_answer), !.is_correct = Some(is_correct)]]

\* current_question.user_answer = ...; current_question.is_correct = ...
StoreAnswer(quiz, user_answer, is_correct) ==
  [quiz EXCEPT !.questions[quiz.current_question_index + 1] =
     [@ EXCEPT !.user_answer = Some(user_answer), !.is_correct = Some(is_correct)]]

\* the index moves on only past a correctly answered question
AdvanceWhenCorrect(quiz) ==
  IF quiz.questions[quiz.current_question_index + 1].is_correct = <<TRUE>>
  THEN [quiz EXCEPT !.current_question_index = @ + 1]
  ELSE quiz

\* quiz.current_question_index += 1
Advance(quiz) == [quiz EXCEPT !.current_question_index = @ + 1]

\* quiz.current_question_index > len(quiz.questions)
QuizFinishedOffByOne(quiz) == quiz.current_question_index > Len(quiz.questions)

\* quiz.current_question_index >= len(quiz.questions)
QuizFinished(quiz) == quiz.current_question_index >= Len(quiz.questions)

\* no check of quiz.completed
AlreadyCompletedUnchecked(quiz) == FALSE

\* quiz.completed
AlreadyCompleted(quiz) == quiz.completed

\* "Move to next question or complete quiz", shared by submit_answer and
\* skip_question: `answered` is the quiz with the current question's answer stored
\* what it does to the Quiz objects and the history, and how the call goes on
MoveOnEffect(tool, answered) ==
  LET moved == Advance(answered) IN
  IF QuizFinished(moved)
  THEN LET quiz == [moved EXCEPT !.completed = TRUE]
           percentage == Percentage(quiz.score, Len(quiz.questions))
       IN [objects |-> (quiz.id :> quiz) @@ quizzes,
           hist |-> CompleteHistory(quiz_history, quiz, percentage),
           end |-> CompleteQuizSend(tool, quiz, percentage)]
  ELSE [objects |-> (moved.id :> moved) @@ quizzes,
        hist |-> quiz_history,
        end |-> ShowNextQuestionSend(tool, moved)]

\* a move that sets userdata.current_quiz to None once the quiz is finished
MoveOnClearingFinished(slot, tool, answered) ==
  LET effect == MoveOnEffect(tool, answered) IN
  Step(slot, IF QuizFinished(Advance(answered)) THEN None ELSE current_quiz,
       effect.objects, effect.hist, effect.end)

\* the move applied to userdata: current_quiz stays as it is
MoveOn(slot, tool, answered) ==
  LET effect == MoveOnEffect(tool, answered) IN
  Step(slot, current_quiz, effect.objects, effect.hist, effect.end)

\* submit_answer from "Check answer" to "Store answer"
SubmitAnswered(quiz, answer) ==
  LET current_question == quiz.questions[quiz.current_question_index + 1]
      is_correct == IsCorrect(answer, current_question)
  IN StoreAnswer(Scored(quiz, is_correct), Upper(answer), is_correct)

\* a skip that stores the sentinel and leaves is_correct as it was
SkipAnsweredUnmarked(quiz) ==
  [quiz EXCEPT !.questions[quiz.current_question_index + 1].user_answer =
     Some(<<"SKIPPED">>)]

\* skip_question: "Mark as skipped"
SkipAnswered(quiz) == StoreAnswer(quiz, <<"SKIPPED">>, FALSE)

\* a tool call that ends before it changes anything
Reject(result) ==
  /\ last' = result
  /\ UNCHANGED <<current_quiz, quizzes, quiz_history, room, participants, calls, other, components,
               last_canvas_drawing>>

SubmitAnswer(slot, answer) ==
  /\ calls[slot] = Idle
  /\ IF current_quiz = None
     THEN Reject(Return("submit_answer", "no_active_quiz",
                   <<"There's no active quiz. Create a quiz first using create_quiz.">>))
     ELSE LET quiz == quizzes[current_quiz[1]] IN
          IF AlreadyCompleted(quiz)
          THEN Reject(Return("submit_answer", "already_completed",
                        <<"This quiz is already completed. Your score was ">>
                          \o ScoreOutOf(quiz) \o <<".">>))
          ELSE IF quiz.current_question_index + 1 \notin DOMAIN quiz.questions
          THEN Reject(Raise("submit_answer", "index_error", "IndexError"))
          ELSE MoveOn(slot, "submit_answer", SubmitAnswered(quiz, answer))

SkipQuestion(slot) ==
  /\ calls[slot] = Idle
  /\ IF current_quiz = None
     THEN Reject(Return("skip_question", "no_active_quiz", <<"There's no active quiz.">>))
     ELSE LET quiz == quizzes[current_quiz[1]] IN
          IF AlreadyCompleted(quiz)
          THEN Reject(Return("skip_question", "already_completed",
                        <<"Quiz is already completed.">>))
          ELSE IF quiz.current_question_index + 1 \notin DOMAIN quiz.questions
          THEN Reject(Raise("skip_question", "index_error", "IndexError"))
          ELSE MoveOn(slot, "skip_question", SkipAnswered(quiz))


\* --------------------------------------------------------- get_quiz_status

\* the status with the position counted from 0
GetQuizStatusResultFromZero ==
  IF current_quiz = None
  THEN IF quiz_history # <<>>
       THEN LET last_quiz == quiz_history[Len(quiz_history)] IN
            Return("get_quiz_status", "no_active_quiz",
              <<"No active quiz. Last quiz was on ">> \o last_quiz.topic \o <<" (">>
                \o <<last_quiz.status>> \o <<").">>)
       ELSE Return("get_quiz_status", "no_quiz_yet",
              <<"No quiz has been created yet. Use create_quiz to start one.">>)
  ELSE LET quiz == quizzes[current_quiz[1]] IN
       IF quiz.completed
       THEN Return("get_quiz_status", "completed",
              <<"Quiz completed! Final score: ">> \o ScoreOutOf(quiz)
                \o InPercent(Percentage(quiz.score, Len(quiz.questions))))
       ELSE Return("get_quiz_status", "in_progress",
              <<"Currently on question ">> \o Str(quiz.current_question_index)
                \o <<" of ">> \o Str(Len(quiz.questions)) \o <<". Score so far: ">>
                \o Str(quiz.score) \o <<"/">> \o Str(quiz.current_question_index)
                \o <<" answered correctly.">>)

\* get_quiz_status: the reply
GetQuizStatusResult ==
  IF current_quiz = None
  THEN IF quiz_history # <<>>
       THEN LET last_quiz == quiz_history[Len(quiz_history)] IN
            Return("get_quiz_status", "no_active_quiz",
              <<"No active quiz. Last quiz was on ">> \o last_quiz.topic \o <<" (">>
                \o <<last_quiz.status>> \o <<").">>)
       ELSE Return("get_quiz_status", "no_quiz_yet",
              <<"No quiz has been created yet. Use create_quiz to start one.">>)
  ELSE LET quiz == quizzes[current_quiz[1]] IN
       IF quiz.completed
       THEN Return("get_quiz_status", "completed",
              <<"Quiz completed! Final score: ">> \o ScoreOutOf(quiz)
                \o InPercent(Percentage(quiz.score, Len(quiz.questions))))
       ELSE Return("get_quiz_status", "in_progress",
              <<"Currently on question ">> \o Str(quiz.current_question_index + 1)
                \o <<" of ">> \o Str(Len(quiz.questions)) \o <<". Score so far: ">>
                \o Str(quiz.score) \o <<"/">> \o Str(quiz.current_question_index)
                \o <<" answered correctly.">>)

GetQuizStatus(slot) ==
  /\ calls[slot] = Idle
  /\ Reject(GetQuizStatusResult)

\* ------------------------------------------------------- show_quiz_results

RECURSIVE ResultRows(_, _)
\* the loop "for i, q in enumerate(quiz.questions): results.append(...)", from row i on
ResultRows(questions, i) ==
  IF i > Len(questions) THEN <<>>
  ELSE LET q == questions[i] IN
       << [question_number |-> i, question |-> q.question_text,
           correct_answer |-> q.correct_answer,
           user_answer |-> IF q.user_answer = None \/ q.user_answer = Some(<<>>)
                           THEN <<"Not answered">> ELSE q.user_answer[1],
           is_correct |-> q.is_correct] >>
         \o ResultRows(questions, i + 1)

ShowResultsPayload(quiz) ==
  [action |-> "show_results", quiz_id |-> quiz.id, score |-> quiz.score,
   total |-> Len(quiz.questions),
   percentage |-> Percentage(quiz.score, Len(quiz.questions)),
   results |-> ResultRows(quiz.questions, 1)]

\* show_quiz_results from the await's end to its return
ShowQuizResultsResult(call, quiz, outcome) ==
  LET r == AwaitAndParse(outcome) IN
  IF r.exc = "none"
  THEN IF ResponseOk(r.response)
       THEN Return("show_quiz_results", CauseOf(outcome),
              <<"Here are your detailed results: ">> \o ScoreOutOf(quiz) \o <<" correct">>
                \o InPercent(Percentage(quiz.score, Len(quiz.questions))))
       ELSE ReturnWith("show_quiz_results", CauseOf(outcome),
              <<"Results: ">> \o ScoreOutOf(quiz), ResponseError(r.response))
  ELSE IF CatchesException(r.exc)
  THEN ReturnWith("show_quiz_results", CauseOf(outcome),
         <<"Quiz completed with score ">> \o ScoreOutOf(quiz), r.text)
  ELSE Raise("show_quiz_results", CauseOf(outcome), r.exc)

\* no check that the quiz is completed
NotCompletedUnchecked(quiz) == FALSE

\* not quiz.completed
NotCompleted(quiz) == ~quiz.completed

\* a show_quiz_results that opens the quiz again once its results are shown
ShowQuizResultsReopening(slot) ==
  /\ calls[slot] = Idle
  /\ IF current_quiz = None
     THEN Reject(Return("show_quiz_results", "no_active_quiz",
                   <<"No quiz to show results for.">>))
     ELSE LET quiz == quizzes[current_quiz[1]] IN
          IF NotCompleted(quiz)
          THEN Reject(Return("show_quiz_results", "not_completed",
                        <<"Quiz is not completed yet. Finish the quiz first.">>))
          ELSE IF ~room
          THEN Reject(Return("show_quiz_results", "no_room",
                        <<"Quiz completed but couldn't display results">>))
          ELSE IF participants = <<>>
          THEN Reject(Return("show_quiz_results", "no_peer",
                        <<"No participants to send results to">>))
          ELSE Step(slot, current_quiz, [quizzes EXCEPT ![quiz.id].completed = FALSE],
                    quiz_history,
                    Suspend([tool |-> "show_quiz_results", helper |-> "show_quiz_results",
                             quiz |-> quiz.id, dest |-> FirstParticipant,
                             payload |-> ShowResultsPayload(quiz), sent |-> 1]))

\* show_quiz_results up to its await
ShowQuizResults(slot) ==
  /\ calls[slot] = Idle
  /\ IF current_quiz = None
     THEN Reject(Return("show_quiz_results", "no_active_quiz",
                   <<"No quiz to show results for.">>))
     ELSE LET quiz == quizzes[current_quiz[1]] IN
          IF NotCompleted(quiz)
          THEN Reject(Return("show_quiz_results", "not_completed",
                        <<"Quiz is not completed yet. Finish the quiz first.">>))
          ELSE IF ~room
          THEN Reject(Return("show_quiz_results", "no_room",
                        <<"Quiz completed but couldn't display results">>))
          ELSE IF participants = <<>>
          THEN Reject(Return("show_quiz_results", "no_peer",
                        <<"No participants to send results to">>))
          ELSE Step(slot, current_quiz, quizzes, quiz_history,
                    Suspend([tool |-> "show_quiz_results", helper |-> "show_quiz_results",
                             quiz |-> quiz.id, dest |-> FirstParticipant,
                             payload |-> ShowResultsPayload(quiz), sent |-> 1]))

\* ---------------------------------------------------- the await's outcome

\* what the suspended call returns once its await ended with `outcome`
ToolResult(call, outcome) ==
  LET quiz == quizzes[call.quiz] IN
  CASE call.tool = "create_quiz" -> CreateQuizResult(call, quiz, outcome)
    [] call.tool = "show_quiz_results" -> ShowQuizResultsResult(call, quiz, outcome)
    [] call.helper = "_complete_quiz" -> CompleteQuizResult(call, quiz, outcome)
    [] OTHER -> ShowNextQuestionResult(call, quiz, outcome)

\* a resumption that sends the request once more when the first one timed out
ResumeRetrying(slot, outcome) ==
  /\ calls[slot] # Idle
  /\ IF outcome.kind = "timeout" /\ calls[slot].sent = 1
     THEN /\ calls' = [calls EXCEPT ![slot].sent = 2]
          /\ UNCHANGED <<last, quizzes>>
     ELSE /\ last' = ToolResult(calls[slot], outcome)
          /\ calls' = [calls EXCEPT ![slot] = Idle]
          /\ quizzes' = Referenced(quizzes, current_quiz, calls')
  /\ UNCHANGED <<current_quiz, quiz_history, room, participants, other, components,
               last_canvas_drawing>>

\* a resumption that takes the submitted answer back when the exchange failed
ResumeRollingBack(slot, outcome) ==
  /\ calls[slot] # Idle
  /\ last' = ToolResult(calls[slot], outcome)
  /\ calls' = [calls EXCEPT ![slot] = Idle]
  /\ quizzes' =
       IF AwaitAndParse(outcome).exc # "none" /\ calls[slot].tool = "submit_answer"
       THEN [quizzes EXCEPT ![calls[slot].quiz] =
               [@ EXCEPT !.current_question_index = @ - 1, !.completed = FALSE]]
       ELSE quizzes
  /\ UNCHANGED <<current_quiz, quiz_history, room, participants, other, components,
               last_canvas_drawing>>

\* a resumption that moves the index on once the frontend has confirmed
ResumeAdvancing(slot, outcome) ==
  /\ calls[slot] # Idle
  /\ last' = ToolResult(calls[slot], outcome)
  /\ calls' = [calls EXCEPT ![slot] = Idle]
  /\ quizzes' =
       Referenced(IF CauseOf(outcome) = "ok" /\ calls[slot].payload.action = "next_question"
                  THEN [quizzes EXCEPT ![calls[slot].quiz].current_question_index = @ + 1]
                  ELSE quizzes,
                  current_quiz, calls')
  /\ UNCHANGED <<current_quiz, quiz_history, room, participants, other, components,
               last_canvas_drawing>>

\* the await without a timeout: only a reply or a failure ends it
ResumeOnReplyOnly(slot, outcome) ==
  /\ calls[slot] # Idle
  /\ outcome.kind # "timeout"
  /\ last' = ToolResult(calls[slot], outcome)
  /\ calls' = [calls EXCEPT ![slot] = Idle]
  /\ quizzes' = Referenced(quizzes, current_quiz, calls')
  /\ UNCHANGED <<current_quiz, quiz_history, room, participants, other, components,
               last_canvas_drawing>>

\* the suspended call of `slot` resumes with the await's outcome and runs to its end
Resume(slot, outcome) ==
  /\ calls[slot] # Idle
  /\ last' = ToolResult(calls[slot], outcome)
  /\ calls' = [calls EXCEPT ![slot] = Idle]
  /\ quizzes' = Referenced(quizzes, current_quiz, calls')
  /\ UNCHANGED <<current_quiz, quiz_history, room, participants, other, components,
               last_canvas_drawing>>

\* ------------------------------------------------------------- environment

\* a participant joins the room
ParticipantJoins(identity) ==
  /\ room
  /\ \A i \in DOMAIN participants : participants[i] # identity
  /\ participants' = Append(participants, identity)
  /\ UNCHANGED <<current_quiz, quizzes, quiz_history, room, calls, last, other, components,
               last_canvas_drawing>>

\* a participant leaves the room
ParticipantLeaves(identity) ==
  /\ \E i \in DOMAIN participants : participants[i] = identity
  /\ participants' = SelectSeq(participants, LAMBDA p : p # identity)
  /\ UNCHANGED <<current_quiz, quizzes, quiz_history, room, calls, last, other, components,
               last_canvas_drawing>>

\* ------------------------------------------------------------ specification

\* inputs of the tool calls explored
s_Geometry == <<"G", "e", "o", "m", "e", "t", "r", "y">>
s_calculus == <<"c", "a", "l", "c", "u", "l", "u", "s">>
s_Easy == <<"E", "a", "s", "y">>
s_HARD == <<"H", "A", "R", "D">>
s_extreme == <<"e", "x", "t", "r", "e", "m", "e">>
\* create_quiz(topic, num_questions, difficulty)
CreateQuizInputs ==
  { <<s_algebra, 5, s_Easy>>, <<s_algebra, 1, s_medium>>,
    <<s_Geometry, 0, s_extreme>>, <<s_calculus, 37, s_HARD>> }
Answers == {<<"a">>, <<"A">>, <<"b">>}
\* the participants that join and leave the room
Joiners == {"student"}

\* UserData(ctx=ctx): no quiz, an empty history; the room is given or not
Init ==
  /\ current_quiz = UserDataDefaults.current_quiz
  /\ quizzes = <<>>
  /\ quiz_history = UserDataDefaults.quiz_history
  /\ room \in BOOLEAN
  /\ participants = <<>>
  /\ calls = [slot \in Slots |-> Idle]
  /\ last = NoReply
  /\ other = OtherSession(1, UserDataDefaults.current_quiz, UserDataDefaults.quiz_history)
  /\ components = <<>>
  /\ last_canvas_drawing = None

\* the conversational engine issues one tool call at a time
NoCallSuspended == \A slot \in Slots : calls[slot] = Idle

Next ==
  \/ \E input \in CreateQuizInputs :
       NoCallSuspended /\ CreateQuiz(1, input[1], input[2], input[3])
  \/ \E answer \in Answers : NoCallSuspended /\ SubmitAnswer(1, answer)
  \/ NoCallSuspended /\ SkipQuestion(1)
  \/ NoCallSuspended /\ GetQuizStatus(1)
  \/ NoCallSuspended /\ ShowQuizResults(1)
  \/ \E slot \in Slots, outcome \in Outcomes : Resume(slot, outcome)
  \/ \E identity \in Joiners : ParticipantJoins(identity)
  \/ \E identity \in Joiners : ParticipantLeaves(identity)

Spec == Init /\ [][Next]_vars

\* ---------------------------------------- a room whose participants change

\* the quiz tools in a room that two participants enter and leave in any order
PeersCreateInputs == { <<s_algebra, 5, s_Easy>> }
PeersOutcomes == { [kind |-> "reply", body |-> BodyOk], [kind |-> "timeout"] }

InitPeers ==
  /\ current_quiz = UserDataDefaults.current_quiz
  /\ quizzes = <<>>
  /\ quiz_history = UserDataDefaults.quiz_history
  /\ room = TRUE
  /\ participants = <<>>
  /\ calls = [slot \in Slots |-> Idle]
  /\ last = NoReply
  /\ other = OtherSession(1, UserDataDefaults.current_quiz, UserDataDefaults.quiz_history)
  /\ components = <<>>
  /\ last_canvas_drawing = None

NextPeers ==
  \/ \E input \in PeersCreateInputs :
       NoCallSuspended /\ CreateQuiz(1, input[1], input[2], input[3])
  \/ \E answer \in Answers : NoCallSuspended /\ SubmitAnswer(1, answer)
  \/ NoCallSuspended /\ SkipQuestion(1)
  \/ NoCallSuspended /\ ShowQuizResults(1)
  \/ \E slot \in Slots, outcome \in PeersOutcomes : Resume(slot, outcome)
  \/ \E identity \in Identities : ParticipantJoins(identity)
  \/ \E identity \in Identities : ParticipantLeaves(identity)

SpecPeers == InitPeers /\ [][NextPeers]_vars

\* ------------------------------------------- a frontend that may stay silent

\* the frontend's reply arrives after `wait_for` gave up on it and the call
\* returned: `wait_for` cancelled perform_rpc, and the tools register nothing
\* else that a reply could reach
LateReply(body) ==
  /\ last.tool # "none"
  /\ last.cause = "timeout"
  /\ \A slot \in Slots : calls[slot] = Idle
  /\ UNCHANGED vars

TimedOut == [kind |-> "timeout"]

NextTimeout ==
  \/ \E input \in PeersCreateInputs :
       NoCallSuspended /\ CreateQuiz(1, input[1], input[2], input[3])
  \/ \E answer \in Answers : NoCallSuspended /\ SubmitAnswer(1, answer)
  \/ NoCallSuspended /\ SkipQuestion(1)
  \/ NoCallSuspended /\ GetQuizStatus(1)
  \/ NoCallSuspended /\ ShowQuizResults(1)
  \/ \E slot \in Slots, outcome \in PeersOutcomes : Resume(slot, outcome)
  \/ \E body \in Bodies : LateReply(body)
  \/ \E identity \in Joiners : ParticipantJoins(identity)
  \/ \E identity \in Joiners : ParticipantLeaves(identity)

\* asyncio.wait_for(..., timeout=RPC_TIMEOUT) ends every wait: a waiting call
\* whose reply does not come resumes with the timeout
SpecTimeout ==
  /\ Init
  /\ [][NextTimeout]_vars
  /\ \A slot \in Slots : WF_vars(Resume(slot, TimedOut))

\* ------------------------------------------------------------- two sessions

Sessions == {1, 2}

\* the tools of the other session run next: each session has the UserData
\* that create_agent_session gave it
SwitchSession ==
  /\ current_quiz' = other.current_quiz
  /\ quiz_history' = other.quiz_history
  /\ other' = OtherSession(CHOOSE s \in Sessions : s # other.active,
                           current_quiz, quiz_history)
  /\ UNCHANGED <<quizzes, room, participants, calls, last, components,
               last_canvas_drawing>>

SessionsAnswers == {<<"a">>, <<"b">>}
SessionsOutcomes == { [kind |-> "reply", body |-> BodyOk] }

\* both sessions in a room with the student
InitSessions ==
  /\ current_quiz = UserDataDefaults.current_quiz
  /\ quizzes = <<>>
  /\ quiz_history = UserDataDefaults.quiz_history
  /\ room = TRUE
  /\ participants = <<"student">>
  /\ calls = [slot \in Slots |-> Idle]
  /\ last = NoReply
  /\ other = OtherSession(1, UserDataDefaults.current_quiz, UserDataDefaults.quiz_history)
  /\ components = <<>>
  /\ last_canvas_drawing = None

\* each session issues one tool call at a time, on the slot of its number; the
\* calls of the two sessions interleave at their awaits
NextSessions ==
  \/ \E input \in PeersCreateInputs :
       Created < MaxQuizzes /\ CreateQuiz(other.active, input[1], input[2], input[3])
  \/ \E answer \in SessionsAnswers :
       calls[other.active] = Idle /\ SubmitAnswer(other.active, answer)
  \/ calls[other.active] = Idle /\ SkipQuestion(other.active)
  \/ \E slot \in Slots, outcome \in SessionsOutcomes : Resume(slot, outcome)
  \/ SwitchSession

SpecSessions == InitSessions /\ [][NextSessions]_vars

\* ------------------------------------------- create_quiz over many spellings

s_ALGEBRA == <<"A", "L", "G", "E", "B", "R", "A">>
s_GeOmEtRy == <<"G", "e", "O", "m", "E", "t", "R", "y">>
s_Fractions == <<"F", "r", "a", "c", "t", "i", "o", "n", "s">>
s_algebra_space == <<"a", "l", "g", "e", "b", "r", "a", " ">>
s_EASY == <<"E", "A", "S", "Y">>
s_MeDiUm == <<"M", "e", "D", "i", "U", "m">>
s_Hard == <<"H", "a", "r", "d">>
s_hard_space == <<"h", "a", "r", "d", " ">>
s_empty == <<>>

\* the topics and the difficulties create_quiz is called with
TopicSpellings ==
  { s_algebra, s_ALGEBRA, s_geometry, s_Geometry, s_GeOmEtRy, s_fractions,
    s_Fractions, s_calculus, s_algebra_space, s_empty }
DifficultySpellings ==
  { s_easy, s_Easy, s_EASY, s_medium, s_MeDiUm, s_hard, s_Hard, s_HARD,
    s_extreme, s_hard_space, s_empty }
SpellingInputs ==
  { <<topic, 1, s_medium>> : topic \in TopicSpellings }
    \cup { <<s_algebra, 5, difficulty>> : difficulty \in DifficultySpellings }

NextCreate ==
  \E input \in SpellingInputs :
    NoCallSuspended /\ CreateQuiz(1, input[1], input[2], input[3])

SpecCreate == Init /\ [][NextCreate]_vars

\* ------------------------------------------- tool calls that overlap in time

\* the slot a starting call takes: the first one with no call waiting in it
FreeSlots == {slot \in Slots : calls[slot] = Idle}
FirstFreeSlot == CHOOSE slot \in FreeSlots : \A free \in FreeSlots : slot <= free

\* the tools of one session, a call starting while others wait for their
\* replies: each await hands control back to the event loop
NextConcurrent ==
  \/ \E input \in PeersCreateInputs :
       FreeSlots # {} /\ CreateQuiz(FirstFreeSlot, input[1], input[2], input[3])
  \/ \E answer \in SessionsAnswers :
       FreeSlots # {} /\ SubmitAnswer(FirstFreeSlot, answer)
  \/ FreeSlots # {} /\ SkipQuestion(FirstFreeSlot)
  \/ \E slot \in Slots, outcome \in SessionsOutcomes : Resume(slot, outcome)

SpecConcurrent == InitSessions /\ [][NextConcurrent]_vars

\* ------------------------------------------------------- component tools

\* uuid.uuid4() of the k-th component
ComponentId(k) == Uuid(k, 9)

\* Component(id, content, is_showed=False)
Component(id, content) == [id |-> id, content |-> content, is_showed |-> FALSE]

\* UserData.get_component: the position of the first component with the id, 0 for None
GetComponent(action_id) ==
  IF \E i \in DOMAIN components : components[i].id = action_id
  THEN CHOOSE i \in DOMAIN components :
         /\ components[i].id = action_id
         /\ \A j \in DOMAIN components : components[j].id = action_id => i <= j
  ELSE 0

\* UserData.toggle_component: the list after the call
ToggledComponents(action_id) ==
  LET i == GetComponent(action_id) IN
  IF i = 0 THEN components
  ELSE [components EXCEPT ![i].is_showed = ~components[i].is_showed]

\* a call of a component tool waiting at `await perform_rpc(...)`, which is not
\* under asyncio.wait_for
ComponentCall(tool, component, payload) ==
  [tool |-> tool, component |-> component, dest |-> FirstParticipant,
   payload |-> payload, sent |-> 1, timed |-> FALSE]

\* a step of a component tool from its entry to its await or its end
ComponentStep(slot, comps, end) ==
  /\ components' = comps
  /\ calls' = IF end.suspend THEN [calls EXCEPT ![slot] = end.call] ELSE calls
  /\ last' = IF end.suspend THEN NoReply ELSE end.result
  /\ UNCHANGED <<current_quiz, quizzes, quiz_history, room, participants, other,
                 last_canvas_drawing>>

\* create_component(content)
CreateComponent(slot, content) ==
  /\ calls[slot] = Idle
  /\ Len(components) < MaxComponents
  /\ LET component == Component(ComponentId(Len(components) + 1), content)
         comps == Append(components, component)
     IN ComponentStep(slot, comps,
          IF ~room
          THEN Done(Return("create_component", "no_room",
                 <<"Created a component, but couldn't access the room to send it">>))
          ELSE IF participants = <<>>
          THEN Done(Return("create_component", "no_peer",
                 <<"Created a component, but no participants found to send it to">>))
          ELSE Suspend(ComponentCall("create_component", component,
                 [action |-> "show", id |-> component.id, content |-> component.content,
                  index |-> Len(comps) - 1])))

\* toggle_component(component_id)
ToggleComponent(slot, component_id) ==
  /\ calls[slot] = Idle
  /\ LET i == GetComponent(component_id)
         comps == ToggledComponents(component_id)
     IN ComponentStep(slot, comps,
          IF i = 0
          THEN Done(Return("toggle_component", "not_found",
                 <<"Component with ID ">> \o Str(component_id) \o <<" not found">>))
          ELSE IF ~room
          THEN Done(Return("toggle_component", "no_room",
                 <<"Toggled the component, but couldn't access the room to send it">>))
          ELSE IF participants = <<>>
          THEN Done(Return("toggle_component", "no_peer",
                 <<"Toggled the component, but no participants found to send it to">>))
          ELSE Suspend(ComponentCall("toggle_component", comps[i],
                 [action |-> "toggle", id |-> comps[i].id])))

\* what a component tool does once `await perform_rpc(...)` has ended: the
\* result is not read, and an exception leaves the tool
ComponentResult(call, outcome) ==
  IF outcome.kind # "reply"
  THEN Raise(call.tool, CauseOf(outcome), "RpcError")
  ELSE IF call.tool = "create_component"
  THEN Return(call.tool, CauseOf(outcome),
         <<"I've created a component with the content: ">> \o call.component.content)
  ELSE Return(call.tool, CauseOf(outcome),
         <<"I've toggled the component to ">>
           \o <<IF components[GetComponent(call.component.id)].is_showed
                THEN "show" ELSE "hide">>
           \o <<" the component">>)

\* the await of a component tool ends: with the frontend's reply or with the
\* transport's error; RPC_TIMEOUT does not apply to it
ResumeComponent(slot, outcome) ==
  /\ calls[slot] # Idle
  /\ calls[slot].tool \in {"create_component", "toggle_component"}
  /\ outcome.kind # "timeout"
  /\ last' = ComponentResult(calls[slot], outcome)
  /\ calls' = [calls EXCEPT ![slot] = Idle]
  /\ UNCHANGED <<current_quiz, quizzes, quiz_history, room, participants, other,
                 components, last_canvas_drawing>>

\* ------------------------------------------- the toggle-component RPC handler

\* rpc_data.payload as the frontend sends it
ToggleBodyFor(id) == <<"{\"id\": \"">> \o Str(id) \o <<"\"}">>
ToggleBodyNoId == <<"{}">>
ToggleBodyEmptyId == <<"{\"id\": \"\"}">>
ToggleBodyArray == <<"[1, 2]">>
ToggleBodyNotJson == <<"toggle">>
\* an id that no component has
UnknownComponentId == ComponentId(0)
ComponentIds == {ComponentId(k) : k \in 1..MaxComponents} \cup {UnknownComponentId}
TogglePayloads ==
  {ToggleBodyFor(id) : id \in ComponentIds}
    \cup {ToggleBodyNoId, ToggleBodyEmptyId, ToggleBodyArray, ToggleBodyNotJson}

\* json.loads(payload_str) and payload_data.get("id"): the id, None, or the
\* exception raised on the way
ToggleActionId(payload_str) ==
  IF payload_str = ToggleBodyNotJson
  THEN [exc |-> "JSONDecodeError", text |-> JsonDecodeText]
  ELSE IF payload_str = ToggleBodyArray
  THEN [exc |-> "AttributeError", text |-> AttributeErrorText]
  ELSE IF payload_str \in {ToggleBodyNoId, ToggleBodyEmptyId}
  THEN [exc |-> "none", action_id |-> None]
  ELSE [exc |-> "none",
        action_id |-> Some(CHOOSE id \in ComponentIds : payload_str = ToggleBodyFor(id))]

\* handle_toggle_component(rpc_data): it has no await, so it runs in one step,
\* also while a tool call waits
HandleToggleComponent(payload_str) ==
  LET r == ToggleActionId(payload_str) IN
  /\ IF r.exc # "none"
     THEN /\ last' = ReturnWith("handle_toggle_component",
                       IF r.exc = "JSONDecodeError" THEN "not_json" ELSE "not_object",
                       <<"error: ">> \o r.text, r.text)
          /\ UNCHANGED components
     ELSE IF r.action_id = None
     THEN /\ last' = Return("handle_toggle_component", "no_id", <<"success">>)
          /\ UNCHANGED components
     ELSE /\ last' = Return("handle_toggle_component",
                       IF GetComponent(r.action_id[1]) = 0 THEN "not_found" ELSE "toggled",
                       <<"success">>)
          /\ components' = ToggledComponents(r.action_id[1])
  /\ UNCHANGED <<current_quiz, quizzes, quiz_history, room, participants, calls, other,
                 last_canvas_drawing>>

\* ------------------------------------------- the component tools in a room

s_hello == <<"h", "e", "l", "l", "o">>
ComponentContents == {s_hello}
ComponentOutcomes ==
  { [kind |-> "reply", body |-> BodyOk], [kind |-> "reply", body |-> BodyRejected],
    [kind |-> "transport", detail |-> TransportText] }

NextComponents ==
  \/ \E content \in ComponentContents : NoCallSuspended /\ CreateComponent(1, content)
  \/ \E component_id \in ComponentIds : NoCallSuspended /\ ToggleComponent(1, component_id)
  \/ \E slot \in Slots, outcome \in ComponentOutcomes : ResumeComponent(slot, outcome)
  \/ \E payload_str \in TogglePayloads : HandleToggleComponent(payload_str)
  \/ \E identity \in Joiners : ParticipantJoins(identity)
  \/ \E identity \in Joiners : ParticipantLeaves(identity)

SpecComponents == Init /\ [][NextComponents]_vars

\* ------------------------------------------------------------- canvas tools

\* the texts of the canvas tools are sequences of single characters, so that
\* `"couldn't" in get_result.lower()` is the substring test it is in Python

s_couldnt ==
  <<"c", "o", "u", "l", "d", "n", "'", "t">>

s_error ==
  <<"e", "r", "r", "o", "r">>

GetCanvasNoRoomText ==
  <<"C", "a", "n", "n", "o", "t", " ", "g", "e", "t", " ", "c", "a", "n", "v", "a",
     "s", ":", " ", "c", "o", "u", "l", "d", "n", "'", "t", " ", "a", "c", "c", "e",
     "s", "s", " ", "t", "h", "e", " ", "r", "o", "o", "m">>

GetCanvasNoPeerText ==
  <<"C", "a", "n", "n", "o", "t", " ", "g", "e", "t", " ", "c", "a", "n", "v", "a",
     "s", ":", " ", "n", "o", " ", "p", "a", "r", "t", "i", "c", "i", "p", "a", "n",
     "t", "s", " ", "f", "o", "u", "n", "d", " ", "i", "n", " ", "t", "h", "e", " ",
     "r", "o", "o", "m">>

GetCanvasSeePrefix ==
  <<"I", " ", "c", "a", "n", " ", "s", "e", "e", " ", "y", "o", "u", "r", " ", "d",
     "r", "a", "w", "i", "n", "g", ".", " ", "I", "t", " ", "c", "o", "n", "t", "a",
     "i", "n", "s", " ">>

GetCanvasSeeSuffix ==
  <<" ", "s", "t", "r", "o", "k", "e", "s", ".", " ", "L", "e", "t", " ", "m", "e",
     " ", "a", "n", "a", "l", "y", "z", "e", " ", "i", "t", ".">>

GetCanvasRejectedPrefix ==
  <<"I", " ", "c", "o", "u", "l", "d", "n", "'", "t", " ", "g", "e", "t", " ", "y",
     "o", "u", "r", " ", "c", "a", "n", "v", "a", "s", " ", "d", "r", "a", "w", "i",
     "n", "g", ":", " ">>

GetCanvasTimeoutText ==
  <<"T", "h", "e", " ", "c", "a", "n", "v", "a", "s", " ", "r", "e", "q", "u", "e",
     "s", "t", " ", "t", "i", "m", "e", "d", " ", "o", "u", "t", ".", " ", "P", "l",
     "e", "a", "s", "e", " ", "m", "a", "k", "e", " ", "s", "u", "r", "e", " ", "y",
     "o", "u", "'", "v", "e", " ", "d", "r", "a", "w", "n", " ", "s", "o", "m", "e",
     "t", "h", "i", "n", "g", " ", "o", "n", " ", "t", "h", "e", " ", "c", "a", "n",
     "v", "a", "s", ".">>

GetCanvasErrorText ==
  <<"I", " ", "e", "n", "c", "o", "u", "n", "t", "e", "r", "e", "d", " ", "a", "n",
     " ", "e", "r", "r", "o", "r", " ", "w", "h", "i", "l", "e", " ", "t", "r", "y",
     "i", "n", "g", " ", "t", "o", " ", "g", "e", "t", " ", "y", "o", "u", "r", " ",
     "d", "r", "a", "w", "i", "n", "g", ".", " ", "P", "l", "e", "a", "s", "e", " ",
     "t", "r", "y", " ", "a", "g", "a", "i", "n", ".">>

CanvasFrontendError ==
  <<"c", "a", "n", "v", "a", "s", " ", "i", "s", " ", "h", "i", "d", "d", "e", "n">>

CanvasUnknownError ==
  <<"U", "n", "k", "n", "o", "w", "n", " ", "e", "r", "r", "o", "r">>

NoDrawingText ==
  <<"T", "h", "e", "r", "e", "'", "s", " ", "n", "o", " ", "d", "r", "a", "w", "i",
     "n", "g", " ", "o", "n", " ", "t", "h", "e", " ", "c", "a", "n", "v", "a", "s",
     " ", "y", "e", "t", ".", " ", "P", "l", "e", "a", "s", "e", " ", "d", "r", "a",
     "w", " ", "s", "o", "m", "e", "t", "h", "i", "n", "g", " ", "f", "i", "r", "s",
     "t", ".">>

AnalysisPrefix ==
  <<"I", " ", "c", "a", "n", " ", "s", "e", "e", " ", "y", "o", "u", "'", "v", "e",
     " ", "d", "r", "a", "w", "n", " ", "s", "o", "m", "e", "t", "h", "i", "n", "g",
     " ", "w", "i", "t", "h", " ">>

AnalysisStrokes ==
  <<" ", "s", "t", "r", "o", "k", "e", "s", ".", " ">>

AnalysisSimple ==
  <<"S", "i", "m", "p", "l", "e", " ", "s", "h", "a", "p", "e", " ", "o", "r", " ",
     "n", "u", "m", "b", "e", "r", ".", " ", "T", "r", "y", " ", "d", "r", "a", "w",
     "i", "n", "g", " ", "m", "o", "r", "e", " ", "c", "o", "m", "p", "l", "e", "x",
     " ", "m", "a", "t", "h", "e", "m", "a", "t", "i", "c", "a", "l", " ", "e", "x",
     "p", "r", "e", "s", "s", "i", "o", "n", "s">>

AnalysisEquation ==
  <<"M", "a", "t", "h", "e", "m", "a", "t", "i", "c", "a", "l", " ", "e", "q", "u",
     "a", "t", "i", "o", "n", " ", "o", "r", " ", "e", "x", "p", "r", "e", "s", "s",
     "i", "o", "n", ".", " ", "M", "a", "k", "e", " ", "s", "u", "r", "e", " ", "n",
     "u", "m", "b", "e", "r", "s", " ", "a", "n", "d", " ", "o", "p", "e", "r", "a",
     "t", "o", "r", "s", " ", "a", "r", "e", " ", "c", "l", "e", "a", "r">>

AnalysisComplex ==
  <<"C", "o", "m", "p", "l", "e", "x", " ", "d", "i", "a", "g", "r", "a", "m", " ",
     "o", "r", " ", "g", "r", "a", "p", "h", ".", " ", "T", "h", "i", "s", " ", "l",
     "o", "o", "k", "s", " ", "l", "i", "k", "e", " ", "a", " ", "d", "e", "t", "a",
     "i", "l", "e", "d", " ", "m", "a", "t", "h", "e", "m", "a", "t", "i", "c", "a",
     "l", " ", "c", "o", "n", "c", "e", "p", "t">>

\* reply bodies of the canvas frontend, besides BodyOk, BodyRefused, BodyNotJson
\* and BodyArray
CanvasBodyDrawing == "{\"ok\": true, \"drawing_data\": {\"strokes\": [[0, 0], [1, 1], [2, 2]]}}"
CanvasBodyBlank == "{\"ok\": true, \"drawing_data\": {\"strokes\": []}}"
CanvasBodyNull == "{\"ok\": true, \"drawing_data\": null}"
CanvasBodyRejected == "{\"ok\": false, \"error\": \"canvas is hidden\"}"
CanvasBodies ==
  {CanvasBodyDrawing, CanvasBodyBlank, CanvasBodyNull, CanvasBodyRejected,
   BodyOk, BodyRefused, BodyNotJson, BodyArray}

\* what `await asyncio.wait_for(perform_rpc(...), timeout=RPC_TIMEOUT)` of a
\* canvas tool can end with
CanvasOutcomes ==
  [kind : {"reply"}, body : CanvasBodies]
    \cup {[kind |-> "timeout"], [kind |-> "transport", detail |-> TransportText]}

\* a drawing dict with `n` strokes; the dict {} is the empty function
Drawing(n) == [strokes |-> [i \in 1..n |-> <<i - 1, i - 1>>]]
EmptyDict == <<>>

\* json.loads(result) of a canvas reply; drawing_data is None for null
CanvasJsonLoads(body) ==
  CASE body = CanvasBodyDrawing ->
         [exc |-> "none", type |-> "dict",
          value |-> [ok |-> TRUE, drawing_data |-> Some(Drawing(3))]]
    [] body = CanvasBodyBlank ->
         [exc |-> "none", type |-> "dict",
          value |-> [ok |-> TRUE, drawing_data |-> Some(Drawing(0))]]
    [] body = CanvasBodyNull ->
         [exc |-> "none", type |-> "dict", value |-> [ok |-> TRUE, drawing_data |-> None]]
    [] body = CanvasBodyRejected ->
         [exc |-> "none", type |-> "dict",
          value |-> [ok |-> FALSE, error |-> CanvasFrontendError]]
    [] OTHER -> JsonLoads(body)

\* the ghost name of a canvas outcome
CanvasCauseOf(outcome) ==
  CASE outcome.kind # "reply" -> CauseOf(outcome)
    [] outcome.body = CanvasBodyDrawing -> "ok"
    [] outcome.body = CanvasBodyBlank -> "ok_blank"
    [] outcome.body = CanvasBodyNull -> "ok_null"
    [] outcome.body = CanvasBodyRejected -> "rejected"
    [] OTHER -> CauseOf(outcome)

\* the statements of a canvas tool's try block from the await to response.get
CanvasAwaitAndParse(outcome) ==
  IF outcome.kind = "timeout" THEN [exc |-> "TimeoutError", text |-> <<>>]
  ELSE IF outcome.kind = "transport" THEN [exc |-> "RpcError", text |-> outcome.detail]
  ELSE LET parsed == CanvasJsonLoads(outcome.body) IN
       IF parsed.exc # "none" THEN [exc |-> parsed.exc, text |-> JsonDecodeText]
       ELSE IF parsed.type # "dict" THEN [exc |-> "AttributeError", text |-> AttributeErrorText]
       ELSE [exc |-> "none", response |-> parsed.value]

\* response.get("drawing_data", {})
ResponseDrawingData(response) ==
  IF "drawing_data" \in DOMAIN response THEN response.drawing_data ELSE Some(EmptyDict)

\* len(drawing_data.get("strokes", []))
StrokeCount(drawing) == IF "strokes" \in DOMAIN drawing THEN Len(drawing.strokes) ELSE 0

\* the truth value of an Optional[dict]: None and {} are false
Truthy(drawing_data) == drawing_data # None /\ DOMAIN drawing_data[1] # {}

\* a call of a canvas tool waiting at its await
CanvasCall(tool, action) ==
  [tool |-> tool, dest |-> FirstParticipant, payload |-> [action |-> action],
   sent |-> 1, timed |-> TRUE]

\* a step of a canvas tool from its entry to its await or its end
CanvasStep(slot, drawing, end) ==
  /\ last_canvas_drawing' = drawing
  /\ calls' = IF end.suspend THEN [calls EXCEPT ![slot] = end.call] ELSE calls
  /\ last' = IF end.suspend THEN NoReply ELSE end.result
  /\ UNCHANGED <<current_quiz, quizzes, quiz_history, room, participants, other,
                 components>>

\* get_canvas_drawing from its entry to its await: the text it returns at
\* once, or None when it went to the await
GetCanvasDrawingEarly ==
  IF ~room THEN Some([cause |-> "no_room", text |-> GetCanvasNoRoomText])
  ELSE IF participants = <<>> THEN Some([cause |-> "no_peer", text |-> GetCanvasNoPeerText])
  ELSE None

\* get_canvas_drawing storing drawing_data before it reads response.get("ok")
GetCanvasDrawingStoringAnyReplyAfterAwait(outcome) ==
  LET r == CanvasAwaitAndParse(outcome)
      cause == CanvasCauseOf(outcome)
  IN
  IF CatchesTimeoutError(r.exc)
  THEN [cause |-> cause, text |-> GetCanvasTimeoutText, drawing |-> last_canvas_drawing]
  ELSE IF r.exc # "none"
  THEN [cause |-> cause, text |-> GetCanvasErrorText, drawing |-> last_canvas_drawing]
  ELSE LET drawing_data == ResponseDrawingData(r.response) IN
       IF ResponseOk(r.response)
       THEN IF drawing_data = None
            THEN [cause |-> cause, text |-> GetCanvasErrorText, drawing |-> drawing_data]
            ELSE [cause |-> cause,
                  text |-> GetCanvasSeePrefix \o Str(StrokeCount(drawing_data[1]))
                             \o GetCanvasSeeSuffix,
                  drawing |-> drawing_data]
       ELSE [cause |-> cause,
             text |-> GetCanvasRejectedPrefix
                        \o (IF "error" \in DOMAIN r.response THEN r.response.error
                            ELSE CanvasUnknownError),
             drawing |-> drawing_data]

\* get_canvas_drawing from the end of its await: the text it returns and the
\* drawing it leaves stored, which it stores before it builds the text
GetCanvasDrawingAfterAwait(outcome) ==
  LET r == CanvasAwaitAndParse(outcome)
      cause == CanvasCauseOf(outcome)
  IN
  IF CatchesTimeoutError(r.exc)
  THEN [cause |-> cause, text |-> GetCanvasTimeoutText, drawing |-> last_canvas_drawing]
  ELSE IF r.exc # "none"
  THEN [cause |-> cause, text |-> GetCanvasErrorText, drawing |-> last_canvas_drawing]
  ELSE IF ResponseOk(r.response)
  THEN LET drawing_data == ResponseDrawingData(r.response) IN
       IF drawing_data = None
       THEN [cause |-> cause, text |-> GetCanvasErrorText, drawing |-> drawing_data]
       ELSE [cause |-> cause,
             text |-> GetCanvasSeePrefix \o Str(StrokeCount(drawing_data[1]))
                        \o GetCanvasSeeSuffix,
             drawing |-> drawing_data]
  ELSE [cause |-> cause,
        text |-> GetCanvasRejectedPrefix
                   \o (IF "error" \in DOMAIN r.response THEN r.response.error
                       ELSE CanvasUnknownError),
        drawing |-> last_canvas_drawing]

\* get_canvas_drawing()
GetCanvasDrawing(slot) ==
  /\ calls[slot] = Idle
  /\ CanvasStep(slot, last_canvas_drawing,
       IF GetCanvasDrawingEarly # None
       THEN Done(Return("get_canvas_drawing", GetCanvasDrawingEarly[1].cause,
                        GetCanvasDrawingEarly[1].text))
       ELSE Suspend(CanvasCall("get_canvas_drawing", "get_drawing")))

\* clear_canvas() from the end of its await
ClearCanvasAfterAwait(outcome) ==
  LET r == CanvasAwaitAndParse(outcome)
      cause == CanvasCauseOf(outcome)
  IN
  IF CatchesTimeoutError(r.exc)
  THEN [cause |-> cause, text |-> <<"The clear request timed out. Please try again.">>,
        drawing |-> last_canvas_drawing]
  ELSE IF r.exc # "none"
  THEN [cause |-> cause, text |-> <<"I encountered an error while clearing the canvas.">>,
        drawing |-> last_canvas_drawing]
  ELSE IF ResponseOk(r.response)
  THEN [cause |-> cause,
        text |-> <<"I've cleared the canvas. You can start drawing a new problem.">>,
        drawing |-> None]
  ELSE [cause |-> cause,
        text |-> <<"I couldn't clear the canvas: ">>
                   \o (IF "error" \in DOMAIN r.response THEN r.response.error
                       ELSE CanvasUnknownError),
        drawing |-> last_canvas_drawing]

\* clear_canvas()
ClearCanvas(slot) ==
  /\ calls[slot] = Idle
  /\ CanvasStep(slot, last_canvas_drawing,
       IF ~room
       THEN Done(Return("clear_canvas", "no_room",
              <<"Cannot clear canvas: couldn't access the room">>))
       ELSE IF participants = <<>>
       THEN Done(Return("clear_canvas", "no_peer",
              <<"Cannot clear canvas: no participants found in the room">>))
       ELSE Suspend(CanvasCall("clear_canvas", "clear")))

\* the mock analysis of a stored drawing
Analysis(drawing) ==
  AnalysisPrefix \o Str(StrokeCount(drawing)) \o AnalysisStrokes
    \o (IF StrokeCount(drawing) < 5 THEN AnalysisSimple
        ELSE IF StrokeCount(drawing) < 20 THEN AnalysisEquation
        ELSE AnalysisComplex)

\* `"couldn't" in get_result.lower() or "error" in get_result.lower()`
LooksFailed(get_result) ==
  LET lowered == Lower(get_result) IN
  Contains(lowered, s_couldnt) \/ Contains(lowered, s_error)

\* analyze_math_drawing from `drawing_data = userdata.last_canvas_drawing` on
AnalyzeStored(cause, drawing_data) ==
  IF ~Truthy(drawing_data)
  THEN ReturnWith("analyze_math_drawing", cause, NoDrawingText, <<"no_drawing">>)
  ELSE ReturnWith("analyze_math_drawing", cause, Analysis(drawing_data[1]), <<"analysis">>)

\* analyze_math_drawing once its get_canvas_drawing has returned `fetch`
AnalyzeFetched(fetch) ==
  IF LooksFailed(fetch.text)
  THEN ReturnWith("analyze_math_drawing", fetch.cause, fetch.text, <<"get_result">>)
  ELSE AnalyzeStored(fetch.cause, fetch.drawing)

\* analyze_math_drawing()
AnalyzeMathDrawing(slot) ==
  /\ calls[slot] = Idle
  /\ CanvasStep(slot, last_canvas_drawing,
       IF Truthy(last_canvas_drawing)
       THEN Done(AnalyzeStored("stored", last_canvas_drawing))
       ELSE IF GetCanvasDrawingEarly # None
       THEN Done(AnalyzeFetched([cause |-> GetCanvasDrawingEarly[1].cause,
                                 text |-> GetCanvasDrawingEarly[1].text,
                                 drawing |-> last_canvas_drawing]))
       ELSE Suspend(CanvasCall("analyze_math_drawing", "get_drawing")))

\* the await of a canvas tool ends and the tool runs to its return
ResumeCanvas(slot, outcome) ==
  /\ calls[slot] # Idle
  /\ calls[slot].tool \in {"get_canvas_drawing", "clear_canvas", "analyze_math_drawing"}
  /\ calls' = [calls EXCEPT ![slot] = Idle]
  /\ UNCHANGED <<current_quiz, quizzes, quiz_history, room, participants, other,
                 components>>
  /\ LET res == IF calls[slot].tool = "clear_canvas" THEN ClearCanvasAfterAwait(outcome)
                ELSE GetCanvasDrawingAfterAwait(outcome)
     IN /\ last_canvas_drawing' = res.drawing
        /\ last' = IF calls[slot].tool = "analyze_math_drawing" THEN AnalyzeFetched(res)
                   ELSE Return(calls[slot].tool, res.cause, res.text)

\* ------------------------------------------------ the canvas tools in a room

NextCanvas ==
  \/ \E slot \in Slots : GetCanvasDrawing(slot)
  \/ \E slot \in Slots : ClearCanvas(slot)
  \/ \E slot \in Slots : AnalyzeMathDrawing(slot)
  \/ \E slot \in Slots, outcome \in CanvasOutcomes : ResumeCanvas(slot, outcome)
  \/ \E identity \in Joiners : ParticipantJoins(identity)
  \/ \E identity \in Joiners : ParticipantLeaves(identity)

SpecCanvas == Init /\ [][NextCanvas]_vars


\* ------------------------------------------------------------------ claims

HasQuiz == current_quiz # None
\* the Quiz object userdata.current_quiz refers to
ActiveQuiz == quizzes[current_quiz[1]]
InProgress == HasQuiz /\ ~ActiveQuiz.completed

\* a step in which a call of `tool` ended or began to wait; every step that is
\* a call of the tool is one, which spares evaluating the tool on the others
StepOf(tool) ==
  /\ UNCHANGED <<room, participants>>
  /\ last'.tool = tool \/ \E slot \in Slots : calls'[slot].tool = tool
\* a step that is a call of submit_answer
SubmitAnswerCalled(answer) ==
  StepOf("submit_answer") /\ \E slot \in Slots : SubmitAnswer(slot, answer)
\* a step that is a call of skip_question
SkipQuestionCalled == StepOf("skip_question") /\ \E slot \in Slots : SkipQuestion(slot)
\* a step in which a suspended call resumes and ends
CallResumed == \E slot \in Slots : calls[slot] # Idle /\ calls'[slot] = Idle

\* C1: in every reachable state, whatever the calls made and the outcomes of
\* their RPCs, the active quiz has 0 <= current_question_index <= len(questions),
\* and completed is true exactly when current_question_index = len(questions).
C1_IndexInRangeCompletedIffAtEnd ==
  HasQuiz =>
    /\ 0 <= ActiveQuiz.current_question_index
    /\ ActiveQuiz.current_question_index <= Len(ActiveQuiz.questions)
    /\ ActiveQuiz.completed
         <=> (ActiveQuiz.current_question_index = Len(ActiveQuiz.questions))

\* a two-question quiz completed by a submit_answer whose RPC timed out
C1_Witness ==
  /\ HasQuiz
  /\ ActiveQuiz.completed
  /\ ActiveQuiz.current_question_index = 2
  /\ last.tool = "submit_answer"
  /\ last.cause = "timeout"

\* C2: in every reachable state the active quiz's score is at least 0 and at
\* most the number of questions answered so far, current_question_index.
C2_ScoreAtMostAnswered ==
  HasQuiz =>
    /\ 0 <= ActiveQuiz.score
    /\ ActiveQuiz.score <= ActiveQuiz.current_question_index

\* a second quiz of the session with one of its two answers correct
C2_Witness ==
  /\ HasQuiz
  /\ Len(quiz_history) = 2
  /\ ActiveQuiz.current_question_index = 2
  /\ ActiveQuiz.score = 1

\* C3: every submit_answer or skip_question call on an in-progress quiz moves
\* that quiz's current_question_index up by exactly 1; no step lowers the index
\* of a quiz object; and no step makes a completed quiz object incomplete.
C3_IndexAdvancesByOne ==
  [][ /\ \A id \in DOMAIN quizzes \cap DOMAIN quizzes' :
           /\ quizzes'[id].current_question_index >= quizzes[id].current_question_index
           /\ quizzes[id].completed => quizzes'[id].completed
      /\ (InProgress /\ (SkipQuestionCalled \/ \E answer \in Answers : SubmitAnswerCalled(answer)))
           => /\ current_quiz' = current_quiz
              /\ quizzes'[current_quiz[1]].current_question_index
                   = ActiveQuiz.current_question_index + 1
    ]_vars

\* a quiz whose first question was answered wrongly and whose second was skipped,
\* asked for its status after it completed
C3_Witness ==
  /\ HasQuiz
  /\ ActiveQuiz.completed
  /\ ActiveQuiz.current_question_index = 2
  /\ ActiveQuiz.questions[1].user_answer = Some(<<"B">>)
  /\ ActiveQuiz.questions[2].user_answer = Some(<<"SKIPPED">>)
  /\ last.tool = "get_quiz_status"

\* C4: a submit_answer or skip_question call on a completed quiz returns the
\* already-completed reply and leaves the active quiz, every Quiz object (score,
\* index, completed, the questions' answer fields) and the history as they were.
C4_CompletedQuizRejects ==
  [][ (HasQuiz /\ ~InProgress
         /\ (SkipQuestionCalled \/ \E answer \in Answers : SubmitAnswerCalled(answer)))
        => /\ UNCHANGED <<current_quiz, quizzes, quiz_history, calls>>
           /\ last'.kind = "return"
           /\ last'.cause = "already_completed"
    ]_vars

\* skip_question was rejected on a completed quiz after create_quiz's RPC was answered
C4_Witness ==
  /\ HasQuiz
  /\ ActiveQuiz.completed
  /\ last.tool = "skip_question"
  /\ last.cause = "already_completed"

\* two letters that are the same but for their case
SameLetterIgnoringCase(a, b) == Lower(a) = Lower(b)

\* C5: on an in-progress quiz, submit_answer raises the score by exactly 1 when
\* the answer is the current question's correct letter but for case, and by 0
\* otherwise; skip_question raises it by 0.
C5_ScoreIncrement ==
  [][ InProgress =>
        LET current_question ==
              ActiveQuiz.questions[ActiveQuiz.current_question_index + 1]
        IN /\ \A answer \in Answers :
                SubmitAnswerCalled(answer) =>
                  quizzes'[current_quiz[1]].score =
                    ActiveQuiz.score
                      + (IF SameLetterIgnoringCase(answer, current_question.correct_answer)
                         THEN 1 ELSE 0)
           /\ SkipQuestionCalled => quizzes'[current_quiz[1]].score = ActiveQuiz.score
    ]_vars

\* a quiz with a correct first answer and a skipped second question
C5_Witness ==
  /\ HasQuiz
  /\ ActiveQuiz.current_question_index = 2
  /\ ActiveQuiz.score = 1
  /\ ActiveQuiz.questions[1].is_correct = Some(TRUE)
  /\ ActiveQuiz.questions[2].user_answer = Some(<<"SKIPPED">>)
  /\ last.tool = "skip_question"


\* C6: every quiz tool call ends by returning a non-empty string, never with an
\* exception, in every quiz state and whether there is no room, no participant,
\* a timeout, a transport failure, a reply that is not JSON, or one that is JSON
\* but not an object.
C6_ToolsReturnText ==
  last # NoReply =>
    /\ last.kind = "return"
    /\ last.text # <<>>
    /\ \E i \in DOMAIN last.text : last.text[i] # ""

\* submit_answer completed the quiz and the frontend's reply was a JSON list
C6_Witness ==
  /\ last # NoReply
  /\ last.tool = "submit_answer"
  /\ last.cause = "not_object"
  /\ HasQuiz
  /\ ActiveQuiz.completed

\* the sentence get_quiz_status returns for an in-progress quiz
StatusSentence(quiz) ==
  <<"Currently on question ">> \o Str(quiz.current_question_index + 1) \o <<" of ">>
    \o Str(Len(quiz.questions)) \o <<". Score so far: ">> \o Str(quiz.score) \o <<"/">>
    \o Str(quiz.current_question_index) \o <<" answered correctly.">>

\* C7: what create_quiz, submit_answer and skip_question did to the quiz state
\* stands whatever the RPC's outcome: the step in which a suspended call resumes
\* (reply, ok:false, timeout, transport failure, malformed reply) changes neither
\* the active quiz, nor a Quiz object, nor the history; a submit/skip on an
\* in-progress quiz stores its answer and moves the index on also when there is
\* no room or no participant; and get_quiz_status then reports that position and score.
C7_NoRollback ==
  /\ [][ /\ CallResumed =>
              /\ UNCHANGED <<current_quiz, quiz_history>>
              /\ \A id \in DOMAIN quizzes' : quizzes'[id] = quizzes[id]
         /\ (InProgress /\ (SkipQuestionCalled \/ \E answer \in Answers : SubmitAnswerCalled(answer)))
              => LET before == ActiveQuiz
                     after == quizzes'[current_quiz[1]]
                 IN /\ after.current_question_index = before.current_question_index + 1
                    /\ after.questions[before.current_question_index + 1].user_answer # None
                    /\ after.completed
                         <=> (before.current_question_index + 1 = Len(before.questions))
       ]_vars
  /\ []((last.tool = "get_quiz_status" /\ InProgress) => last.text = StatusSentence(ActiveQuiz))

\* with a room, the status asked after the first question was answered correctly
\* reports the advanced position and score
C7_Witness ==
  /\ InProgress
  /\ ActiveQuiz.current_question_index = 1
  /\ ActiveQuiz.score = 1
  /\ room
  /\ last.tool = "get_quiz_status"
  /\ last.text = StatusSentence(ActiveQuiz)

\* the outcomes of an await that are a transport failure or a malformed reply
FailedExchanges ==
  {o \in Outcomes : o.kind = "transport" \/ (o.kind = "reply" /\ o.body \in {BodyNotJson, BodyArray})}

\* C8: for every suspended quiz tool call, the text it returns when its RPC times
\* out differs from the text it returns on a transport failure or a malformed reply.
C8_TimeoutReplyIsSpecific ==
  \A slot \in Slots :
    calls[slot] # Idle =>
      \A o \in FailedExchanges :
        ToolResult(calls[slot], [kind |-> "timeout"]).text # ToolResult(calls[slot], o).text

\* C9: when the frontend answered ok:false with an error string, the text the
\* tool returned holds that error string.
C9_FrontendErrorSurfaced ==
  (last # NoReply /\ last.cause = "rejected") => Contains(last.text, FrontendError)

\* C10: when the reply was not valid JSON or the exchange failed in the
\* transport, the text the tool returned does not hold the exception's text.
C10_NoRawExceptionText ==
  (last # NoReply /\ last.cause \in {"not_json", "transport"})
    => ~Contains(last.text, last.detail)

\* a step that is a call of create_quiz
CreateQuizCalled(input) ==
  StepOf("create_quiz") /\ \E slot \in Slots : CreateQuiz(slot, input[1], input[2], input[3])
\* a step that is a call of get_quiz_status
GetQuizStatusCalled == StepOf("get_quiz_status") /\ \E slot \in Slots : GetQuizStatus(slot)
\* a step that is a call of show_quiz_results
ShowQuizResultsCalled ==
  StepOf("show_quiz_results") /\ \E slot \in Slots : ShowQuizResults(slot)
\* a step in which a call sends its RPC request and waits for the reply
RequestSent == \E slot \in Slots : calls[slot] = Idle /\ calls'[slot] # Idle
\* a room is there and a participant is in it
PeerPresent == room /\ participants # <<>>

\* C11: a quiz tool call sends at most one RPC request, to one participant, and
\* none after a timeout or a failure: a waiting call has sent one request and
\* then only ends; create_quiz, show_quiz_results on a completed quiz and
\* submit_answer/skip_question on an in-progress quiz send their request exactly
\* when a room and a participant are there; get_quiz_status and the calls
\* rejected with a domain error send none.
C11_AtMostOneRpc ==
  /\ [](\A slot \in Slots :
          calls[slot] # Idle => calls[slot].sent = 1 /\ calls[slot].dest \in Identities)
  /\ [][ /\ \A slot \in Slots : calls[slot] # Idle => calls'[slot] \in {calls[slot], Idle}
         /\ \A slot \in Slots :
              (calls[slot] = Idle /\ calls'[slot] # Idle)
                => calls'[slot].dest = Head(participants)
         /\ (\E input \in CreateQuizInputs : CreateQuizCalled(input))
              => (RequestSent <=> PeerPresent)
         /\ (SkipQuestionCalled \/ \E answer \in Answers : SubmitAnswerCalled(answer))
              => (RequestSent <=> (InProgress /\ PeerPresent))
         /\ ShowQuizResultsCalled
              => (RequestSent <=> (HasQuiz /\ ~InProgress /\ PeerPresent))
         /\ GetQuizStatusCalled => ~RequestSent
       ]_vars

\* show_quiz_results waits for the reply to the one request it sent to the student
C11_Witness ==
  /\ calls[1] # Idle
  /\ calls[1].tool = "show_quiz_results"
  /\ calls[1].sent = 1
  /\ calls[1].dest = "student"

\* the number of questions the catalog has for a topic: the topic's list, looked
\* up without regard to case, or the algebra list when the topic is not a key
CatalogSize(topic) ==
  IF Lower(topic) \in {s_geometry, s_fractions} THEN 1 ELSE 2

\* a requested count brought into 1..10
Clamped(n) == IF n < 1 THEN 1 ELSE IF n > 10 THEN 10 ELSE n

CatalogTexts(topic) ==
  IF Lower(topic) = s_geometry
  THEN << <<"What is the area of a rectangle with length 8 and width 5?">> >>
  ELSE IF Lower(topic) = s_fractions
  THEN << <<"What is 1/2 + 1/4?">> >>
  ELSE << <<"What is 2x + 5 = 15? Solve for x.">>, <<"Simplify: 3(x + 2) - 2x">> >>

\* C13: the quiz a create_quiz call builds holds exactly min(clamped
\* num_questions, number of catalog questions of the resolved topic) questions,
\* the first ones of the catalog in catalog order; it is never empty, and the
\* call ends with a reply or waits for its RPC also when the catalog is short.
C13_TruncatedToCatalog ==
  [][ \A input \in CreateQuizInputs :
        CreateQuizCalled(input)
          => LET quiz == quizzes'[current_quiz'[1]]
                 texts == CatalogTexts(input[1])
                 wanted == Clamped(input[2])
                 n == IF wanted < Len(texts) THEN wanted ELSE Len(texts)
             IN /\ Len(quiz.questions) = n
                /\ n >= 1
                /\ \A i \in 1..n : quiz.questions[i].question_text = texts[i]
                /\ \/ RequestSent
                   \/ last'.kind = "return" /\ last'.cause \in {"no_room", "no_peer"}
    ]_vars

\* create_quiz("algebra", 5, "Easy") built a quiz of the 2 algebra questions and
\* the frontend confirmed it
C13_Witness ==
  /\ HasQuiz
  /\ ActiveQuiz.topic = s_algebra
  /\ ActiveQuiz.difficulty = s_easy
  /\ Len(ActiveQuiz.questions) = 2
  /\ last.tool = "create_quiz"
  /\ last.cause = "ok"
  /\ Contains(last.text, <<" quiz with ">> \o Str(5) \o <<" questions. Let's start with question 1!">>)

\* floor(score * 100 / total): the largest p with p * total <= score * 100
FloorPercent(score, total) ==
  CHOOSE p \in 0..100 : p * total <= score * 100 /\ score * 100 < (p + 1) * total

\* the history records of the quizzes that completed
CompletedRecords ==
  {quiz_history[i] : i \in {j \in DOMAIN quiz_history : quiz_history[j].status = "completed"}}

\* C14: the percentage of a completed quiz is floor(score * 100 / total)
\* wherever it is produced: in the complete_quiz payload, in the history record
\* (beside the score summary "score/total"), in the get_quiz_status reply and in
\* the show_results payload; and a quiz has at least one question, so the total
\* that divides is never 0.
C14_PercentageIsFloor ==
  /\ \A id \in DOMAIN quizzes : Len(quizzes[id].questions) >= 1
  /\ \A slot \in Slots :
       (calls[slot] # Idle /\ calls[slot].payload.action \in {"complete_quiz", "show_results"})
         => LET payload == calls[slot].payload
                quiz == quizzes[calls[slot].quiz]
            IN /\ payload.score = quiz.score
               /\ payload.total = Len(quiz.questions)
               /\ payload.percentage = FloorPercent(quiz.score, Len(quiz.questions))
  /\ \A q \in CompletedRecords :
       /\ \E total \in 1..10 : \E score \in 0..total :
            /\ q.score = Str(score) \o <<"/">> \o Str(total)
            /\ q.percentage = FloorPercent(score, total)
       /\ q.id \in DOMAIN quizzes
            => q.percentage
                 = FloorPercent(quizzes[q.id].score, Len(quizzes[q.id].questions))
  /\ (last.tool = "get_quiz_status" /\ last.cause = "completed")
       => last.text = <<"Quiz completed! Final score: ">> \o Str(ActiveQuiz.score) \o <<"/">>
                        \o Str(Len(ActiveQuiz.questions)) \o <<" (">>
                        \o Str(FloorPercent(ActiveQuiz.score, Len(ActiveQuiz.questions)))
                        \o <<"%)">>

\* get_quiz_status reported 50% for a quiz completed with 1 of 2, as its
\* history record does
C14_Witness ==
  /\ last.tool = "get_quiz_status"
  /\ last.cause = "completed"
  /\ ActiveQuiz.score = 1
  /\ Len(ActiveQuiz.questions) = 2
  /\ Contains(last.text, <<" (">> \o Str(50) \o <<"%)">>)
  /\ quiz_history[Len(quiz_history)].percentage = 50

\* C15: a show_quiz_results call made while the active quiz is not completed
\* returns the not-completed reply, and one made with no active quiz returns the
\* no-quiz reply; either way no request is sent and the active quiz, the Quiz
\* objects and the history stay as they were.
C15_ResultsNeedCompletedQuiz ==
  [][ ShowQuizResultsCalled =>
        /\ ~HasQuiz =>
             /\ last'.kind = "return"
             /\ last'.text = <<"No quiz to show results for.">>
             /\ ~RequestSent
             /\ UNCHANGED <<current_quiz, quizzes, quiz_history, calls>>
        /\ InProgress =>
             /\ last'.kind = "return"
             /\ last'.text = <<"Quiz is not completed yet. Finish the quiz first.">>
             /\ ~RequestSent
             /\ UNCHANGED <<current_quiz, quizzes, quiz_history, calls>>
    ]_vars

\* show_quiz_results was refused on a two-question quiz with one question
\* answered, a participant being in the room
C15_Witness ==
  /\ InProgress
  /\ ActiveQuiz.current_question_index = 1
  /\ PeerPresent
  /\ last.tool = "show_quiz_results"
  /\ last.text = <<"Quiz is not completed yet. Finish the quiz first.">>

\* the ids of the quizzes created so far
CreatedIds == {quiz_history[i].id : i \in DOMAIN quiz_history}

\* C16: a create_quiz call always makes a new quiz the active one, in its
\* initial state (index 0, score 0, not completed, no question answered),
\* appends exactly one history record, of status in_progress and of the new
\* quiz's id, and leaves every earlier record as it was, the in_progress record
\* of an abandoned quiz included.
C16_CreateReplacesActiveQuiz ==
  [][ \A input \in CreateQuizInputs :
        CreateQuizCalled(input) =>
          /\ current_quiz' # None
          /\ current_quiz'[1] \notin CreatedIds \cup DOMAIN quizzes
          /\ LET quiz == quizzes'[current_quiz'[1]] IN
               /\ quiz.current_question_index = 0
               /\ quiz.score = 0
               /\ quiz.completed = FALSE
               /\ \A i \in DOMAIN quiz.questions :
                    quiz.questions[i].user_answer = None /\ quiz.questions[i].is_correct = None
               /\ Len(quiz_history') = Len(quiz_history) + 1
               /\ \A i \in DOMAIN quiz_history : quiz_history'[i] = quiz_history[i]
               /\ quiz_history'[Len(quiz_history')].id = quiz.id
               /\ quiz_history'[Len(quiz_history')].status = "in_progress"
    ]_vars

\* a second create_quiz replaced a quiz that was not completed: the new quiz is
\* at question 0 and the first record is still in_progress
C16_Witness ==
  /\ Len(quiz_history) = 2
  /\ quiz_history[1].status = "in_progress"
  /\ quiz_history[2].status = "in_progress"
  /\ HasQuiz
  /\ ActiveQuiz.id = quiz_history[2].id
  /\ ActiveQuiz.current_question_index = 0
  /\ last.tool = "create_quiz"

\* C17: the history only grows, by one record per create_quiz call, and its
\* records stay in place; and whenever there is an active quiz, the last record
\* carries its id, with status completed, the score summary and the percentage
\* exactly when the active quiz is completed, and status in_progress otherwise.
C17_HistoryTracksActiveQuiz ==
  /\ [][ /\ Len(quiz_history') >= Len(quiz_history)
         /\ \A i \in DOMAIN quiz_history : quiz_history'[i].id = quiz_history[i].id
         /\ Len(quiz_history') # Len(quiz_history)
              => /\ Len(quiz_history') = Len(quiz_history) + 1
                 /\ \E input \in CreateQuizInputs : CreateQuizCalled(input)
       ]_vars
  /\ [](HasQuiz =>
          /\ quiz_history # <<>>
          /\ LET q == quiz_history[Len(quiz_history)] IN
               /\ q.id = ActiveQuiz.id
               /\ q.status = (IF ActiveQuiz.completed THEN "completed" ELSE "in_progress")
               /\ ActiveQuiz.completed
                    => /\ q.score = Str(ActiveQuiz.score) \o <<"/">>
                                      \o Str(Len(ActiveQuiz.questions))
                       /\ q.percentage
                            = FloorPercent(ActiveQuiz.score, Len(ActiveQuiz.questions)))

\* the second quiz of the session completed with 1 of 2 and the last of the two
\* records says so
C17_Witness ==
  /\ Len(quiz_history) = 2
  /\ HasQuiz
  /\ ActiveQuiz.completed
  /\ ActiveQuiz.score = 1
  /\ quiz_history[2].status = "completed"
  /\ quiz_history[2].percentage = 50

\* C18: the user_answer and is_correct of a question are written once, both
\* together, by the submit_answer or skip_question call that moves the index
\* past that question: the answered questions of a quiz are those before its
\* index, an answered question never changes again, and a question changes only
\* in a submit/skip step on the active quiz, at the current index.
C18_AnswerSetOnce ==
  /\ [](\A id \in DOMAIN quizzes : \A i \in DOMAIN quizzes[id].questions :
          LET q == quizzes[id].questions[i] IN
          /\ (q.user_answer # None) <=> (i <= quizzes[id].current_question_index)
          /\ (q.is_correct # None) <=> (q.user_answer # None))
  /\ [][ \A id \in DOMAIN quizzes \cap DOMAIN quizzes' :
           \A i \in DOMAIN quizzes[id].questions :
             LET q == quizzes[id].questions[i]
                 r == quizzes'[id].questions[i]
             IN /\ q.user_answer # None
                     => r.user_answer = q.user_answer /\ r.is_correct = q.is_correct
                /\ r # q
                     => /\ SkipQuestionCalled \/ \E answer \in Answers : SubmitAnswerCalled(answer)
                        /\ current_quiz = Some(id)
                        /\ i = quizzes[id].current_question_index + 1
                        /\ i = quizzes'[id].current_question_index
                        /\ r.user_answer # None
                        /\ r.is_correct # None
       ]_vars

\* the results of a quiz answered "A" and then skipped were shown, and both
\* answers are as they were stored
C18_Witness ==
  /\ HasQuiz
  /\ ActiveQuiz.completed
  /\ Len(ActiveQuiz.questions) = 2
  /\ ActiveQuiz.questions[1].user_answer = Some(<<"A">>)
  /\ ActiveQuiz.questions[1].is_correct = Some(TRUE)
  /\ ActiveQuiz.questions[2].user_answer = Some(<<"SKIPPED">>)
  /\ ActiveQuiz.questions[2].is_correct = Some(FALSE)
  /\ last.tool = "show_quiz_results"
  /\ last.cause = "ok"

\* what a submit_answer or skip_question call does, apart from the name of the
\* tool and the user_answer it stores: the quiz (score, index, completed, the
\* questions' other fields), the history, and the request it sends or, when it
\* sends none, the text it returns
EffectButAnswer(effect, quiz) ==
  [quiz |-> [effect.objects[quiz.id] EXCEPT
               !.questions[quiz.current_question_index + 1].user_answer = None],
   hist |-> effect.hist,
   request |-> IF effect.end.suspend
               THEN [helper |-> effect.end.call.helper, dest |-> effect.end.call.dest,
                     payload |-> effect.end.call.payload, sent |-> effect.end.call.sent]
               ELSE <<>>,
   text |-> IF effect.end.suspend THEN <<>> ELSE effect.end.result.text]

\* C19: on an in-progress quiz, skip_question does what submit_answer does with
\* an incorrect answer: the same score, index, completed flag and is_correct,
\* the same history, and the same request (next_question or complete_quiz, with
\* the same payload, to the same participant); they differ in the user_answer
\* stored, which for skip_question is "SKIPPED".
C19_SkipIsWrongAnswer ==
  (InProgress /\ NoCallSuspended) =>
    LET current_question == ActiveQuiz.questions[ActiveQuiz.current_question_index + 1]
        skipped == MoveOnEffect("skip_question", SkipAnswered(ActiveQuiz))
    IN /\ skipped.objects[ActiveQuiz.id]
             .questions[ActiveQuiz.current_question_index + 1].user_answer
            = Some(<<"SKIPPED">>)
       /\ \A answer \in Answers :
            ~SameLetterIgnoringCase(answer, current_question.correct_answer)
              => EffectButAnswer(MoveOnEffect("submit_answer",
                                              SubmitAnswered(ActiveQuiz, answer)),
                                 ActiveQuiz)
                   = EffectButAnswer(skipped, ActiveQuiz)

\* with a participant in the room, the first question was skipped and the
\* second one is open: a skip or a wrong answer now sends complete_quiz
C19_Witness ==
  /\ InProgress
  /\ NoCallSuspended
  /\ PeerPresent
  /\ ActiveQuiz.current_question_index = 1
  /\ ActiveQuiz.questions[1].user_answer = Some(<<"SKIPPED">>)
  /\ last.tool = "skip_question"
  /\ MoveOnEffect("skip_question", SkipAnswered(ActiveQuiz)).end.suspend

\* C20: the requests sent for a quiz follow its lifecycle.  start_quiz is sent
\* only by the create_quiz call that makes the quiz; next_question only by a
\* submit/skip call on the quiz while it stays in progress, with question.index
\* the index just reached, one more than before and between 1 and n - 1;
\* complete_quiz only by the submit/skip call that brings the index to the
\* question count and completes the quiz; show_results only for a quiz already
\* completed.  As the index of a quiz never goes down and a completed quiz stays
\* completed, the next_question indexes of a quiz go strictly up, complete_quiz
\* is sent at most once, and nothing but show_results follows it.
C20_RequestsFollowLifecycle ==
  [][ /\ \A id \in DOMAIN quizzes \cap DOMAIN quizzes' :
           /\ quizzes'[id].current_question_index >= quizzes[id].current_question_index
           /\ quizzes[id].completed => quizzes'[id].completed
      /\ \A slot \in Slots :
           (calls[slot] = Idle /\ calls'[slot] # Idle) =>
             LET payload == calls'[slot].payload
                 id == payload.quiz_id
                 n == Len(quizzes'[id].questions)
                 answering == SkipQuestionCalled
                                \/ \E answer \in Answers : SubmitAnswerCalled(answer)
             IN /\ id = calls'[slot].quiz
                /\ current_quiz' = Some(id)
                /\ CASE payload.action = "start_quiz" ->
                          /\ \E input \in CreateQuizInputs : CreateQuizCalled(input)
                          /\ id \notin CreatedIds \cup DOMAIN quizzes
                          /\ payload.question.index = 0
                          /\ quizzes'[id].current_question_index = 0
                     [] payload.action = "next_question" ->
                          /\ answering
                          /\ id \in DOMAIN quizzes
                          /\ payload.question.index
                               = quizzes[id].current_question_index + 1
                          /\ payload.question.index = quizzes'[id].current_question_index
                          /\ payload.question.index \in 1..(n - 1)
                          /\ ~quizzes'[id].completed
                     [] payload.action = "complete_quiz" ->
                          /\ answering
                          /\ id \in DOMAIN quizzes
                          /\ ~quizzes[id].completed
                          /\ quizzes'[id].completed
                          /\ quizzes[id].current_question_index = n - 1
                          /\ quizzes'[id].current_question_index = n
                     [] payload.action = "show_results" ->
                          /\ ShowQuizResultsCalled
                          /\ id \in DOMAIN quizzes
                          /\ quizzes[id].completed
                          /\ UNCHANGED quizzes
                     [] OTHER -> FALSE
    ]_vars

\* skip_question on the first question of the session's second quiz sent
\* next_question with question.index 1
C20_Witness ==
  /\ Len(quiz_history) = 2
  /\ calls[1] # Idle
  /\ calls[1].tool = "skip_question"
  /\ calls[1].payload.action = "next_question"
  /\ calls[1].payload.question.index = 1
  /\ calls[1].payload.quiz_id = quiz_history[2].id

\* C21: the payload of a request agrees with the quiz it was sent for, which
\* while the call waits is as it was when the request was sent: start_quiz
\* carries question.index 0, the first question and total_questions =
\* len(questions); next_question carries question.index = current_question_index
\* (already moved on) with that question, progress.current =
\* current_question_index + 1 <= progress.total = len(questions) and
\* progress.score = score; complete_quiz carries the score, the total and the
\* percentage of the completed quiz.
C21_PayloadAgreesWithQuiz ==
  \A slot \in Slots :
    calls[slot] # Idle =>
      LET payload == calls[slot].payload
          quiz == quizzes[calls[slot].quiz]
      IN /\ payload.quiz_id = quiz.id
         /\ payload.action = "start_quiz" =>
              /\ payload.question.index = 0
              /\ payload.total_questions = Len(quiz.questions)
              /\ payload.question.question_id = quiz.questions[1].id
              /\ payload.question.question_text = quiz.questions[1].question_text
              /\ payload.topic = quiz.topic
              /\ payload.difficulty = quiz.difficulty
         /\ payload.action = "next_question" =>
              /\ payload.question.index = quiz.current_question_index
              /\ payload.question.question_id
                   = quiz.questions[quiz.current_question_index + 1].id
              /\ payload.progress.current = quiz.current_question_index + 1
              /\ payload.progress.current <= payload.progress.total
              /\ payload.progress.total = Len(quiz.questions)
              /\ payload.progress.score = quiz.score
         /\ payload.action = "complete_quiz" =>
              /\ quiz.completed
              /\ payload.score = quiz.score
              /\ payload.total = Len(quiz.questions)
              /\ payload.percentage * payload.total <= payload.score * 100
              /\ payload.score * 100 < (payload.percentage + 1) * payload.total

\* submit_answer waits for the reply to next_question sent after a correct
\* first answer: question.index 1, progress 2 of 2, score 1
C21_Witness ==
  /\ calls[1] # Idle
  /\ calls[1].tool = "submit_answer"
  /\ calls[1].payload.action = "next_question"
  /\ calls[1].payload.question.index = 1
  /\ calls[1].payload.progress = [current |-> 2, total |-> 2, score |-> 1]

\* a step that is a call of a quiz tool at a point where the tool would send
\* a request
SendingToolCalled ==
  \/ \E input \in PeersCreateInputs : CreateQuizCalled(input)
  \/ InProgress /\ (SkipQuestionCalled \/ \E answer \in Answers : SubmitAnswerCalled(answer))
  \/ HasQuiz /\ ~InProgress /\ ShowQuizResultsCalled
\* the replies of the tools that found nobody to send to
NoPeerReplies ==
  { <<"Quiz created, but no participants found to send it to">>,
    <<"No participants">>,
    <<"No participants to send results to">> }
    \cup { <<"Quiz completed! Score: ">> \o Str(s) \o <<"/">> \o Str(t) :
             s \in 0..MaxQuestions, t \in 1..MaxQuestions }

\* C22: a tool call that sends a request takes its destination from the room's
\* remote participants as they are at that call: with nobody in the room it
\* sends no request and returns a no-peer reply; otherwise the request goes to
\* the participant enumerated first at that moment, whoever joined or left
\* since the call before.
C22_DestinationResolvedAtCall ==
  [][ /\ \A slot \in Slots :
           (calls[slot] = Idle /\ calls'[slot] # Idle)
             => participants # <<>> /\ calls'[slot].dest = participants[1]
      /\ (SendingToolCalled /\ room /\ participants = <<>>)
           => /\ ~RequestSent
              /\ last'.kind = "return"
              /\ last'.text \in NoPeerReplies
      /\ (SendingToolCalled /\ room /\ participants # <<>>) => RequestSent
    ]_vars

\* the observer is enumerated before the student, who joined after the
\* observer did, and submit_answer has sent its request to the observer
C22_Witness ==
  /\ participants = <<"observer", "student">>
  /\ calls[1] # Idle
  /\ calls[1].tool = "submit_answer"
  /\ calls[1].dest = "observer"

\* C23: every quiz tool call returns, also when the frontend never replies: a
\* call waiting for its reply stops waiting, at the latest when the timeout
\* ends the wait; the call resumed by the timeout returns a string in that one
\* step, sends and awaits nothing more and leaves the quiz as it is; a reply
\* that arrives after the timeout changes neither the quiz nor the string the
\* call returned.
C23_CallsReturn ==
  /\ \A slot \in Slots : (calls[slot] # Idle) ~> (calls[slot] = Idle)
  /\ [][ /\ \A slot \in Slots :
              (calls[slot] # Idle /\ Resume(slot, TimedOut))
                => /\ calls'[slot] = Idle
                   /\ last'.kind = "return"
                   /\ last'.cause = "timeout"
                   /\ quizzes'[calls[slot].quiz] = quizzes[calls[slot].quiz]
                   /\ UNCHANGED <<current_quiz, quiz_history>>
         /\ (\E body \in Bodies : LateReply(body))
              => UNCHANGED <<current_quiz, quizzes, quiz_history, calls, last>>
       ]_vars

\* create_quiz has returned after its wait timed out, nothing waits, and the
\* quiz it created is the active one, unanswered
C23_Witness ==
  /\ last.tool = "create_quiz"
  /\ last.cause = "timeout"
  /\ calls[1] = Idle
  /\ HasQuiz
  /\ ActiveQuiz.current_question_index = 0

\* what session `s` holds: its active quiz with the questions' answer fields,
\* and its history
SessionState(s) ==
  LET cur == IF other.active = s THEN current_quiz ELSE other.current_quiz IN
  [current_quiz |-> cur,
   quiz |-> IF cur = None THEN None ELSE Some(quizzes[cur[1]]),
   quiz_history |-> IF other.active = s THEN quiz_history ELSE other.quiz_history]
\* the ids of the questions of the Quiz object `id`
QuestionIds(id) ==
  {quizzes[id].questions[i].id : i \in DOMAIN quizzes[id].questions}

\* C24: the sessions are isolated: a step in which the tools of one session
\* run, or in which the other session takes over, leaves the active quiz, the
\* answer fields of its questions and the history of the session that did not
\* run as they were, also when both quizzes are on the same topic; no two Quiz
\* objects share a question; and a newly created quiz, on a topic used before
\* or not, has every question unanswered.
C24_SessionsIsolated ==
  /\ [](\A a \in DOMAIN quizzes, b \in DOMAIN quizzes :
          a # b => QuestionIds(a) \cap QuestionIds(b) = {})
  /\ [][ /\ \A s \in Sessions :
              (other.active # s \/ other'.active # s)
                => SessionState(s)' = SessionState(s)
         /\ (other' = other /\ current_quiz' # current_quiz)
              => \A i \in DOMAIN quizzes'[current_quiz'[1]].questions :
                   LET q == quizzes'[current_quiz'[1]].questions[i] IN
                   q.user_answer = None /\ q.is_correct = None
       ]_vars

\* both sessions have a quiz on algebra: the one of the session that runs is
\* completed with both answers right, the other session's stands at its second
\* question with a wrong first answer
C24_Witness ==
  /\ other.active = 2
  /\ other.current_quiz # None
  /\ HasQuiz
  /\ ActiveQuiz.topic = s_algebra
  /\ ActiveQuiz.completed
  /\ ActiveQuiz.score = 2
  /\ LET quiz == quizzes[other.current_quiz[1]] IN
       /\ quiz.topic = s_algebra
       /\ quiz.current_question_index = 1
       /\ quiz.questions[1].is_correct = Some(FALSE)
       /\ quiz.questions[2].user_answer = None

\* C25: get_quiz_status changes no state, and its reply tells: without an
\* active quiz, the topic and status of the most recent history record, or,
\* the history being empty, that no quiz has been created yet; with a
\* completed active quiz, the final score and the percentage; with an active
\* quiz in progress, the position current_question_index + 1 of the total and
\* the number of correct answers so far.
C25_StatusReportsQuiz ==
  /\ [](last.tool = "get_quiz_status" =>
          /\ last.kind = "return"
          /\ (~HasQuiz /\ quiz_history = <<>>) =>
               last.text = <<"No quiz has been created yet. Use create_quiz to start one.">>
          /\ (~HasQuiz /\ quiz_history # <<>>) =>
               /\ last.text[1] = "No active quiz. Last quiz was on "
               /\ Contains(last.text, quiz_history[Len(quiz_history)].topic)
               /\ Contains(last.text, <<quiz_history[Len(quiz_history)].status>>)
          /\ (HasQuiz /\ ~InProgress) =>
               last.text = <<"Quiz completed! Final score: ">> \o Str(ActiveQuiz.score)
                             \o <<"/">> \o Str(Len(ActiveQuiz.questions)) \o <<" (">>
                             \o Str(FloorPercent(ActiveQuiz.score, Len(ActiveQuiz.questions)))
                             \o <<"%)">>
          /\ InProgress =>
               /\ ActiveQuiz.current_question_index + 1 <= Len(ActiveQuiz.questions)
               /\ Contains(last.text,
                    <<"Currently on question ">>
                      \o Str(ActiveQuiz.current_question_index + 1)
                      \o <<" of ">> \o Str(Len(ActiveQuiz.questions))
                      \o <<". Score so far: ">> \o Str(ActiveQuiz.score) \o <<"/">>))
  /\ [][GetQuizStatusCalled
          => UNCHANGED <<current_quiz, quizzes, quiz_history, calls, room, participants, other>>
       ]_vars

\* the status of a quiz of two questions after a right first answer:
\* question 2 of 2, score so far 1/1
C25_Witness ==
  /\ last.tool = "get_quiz_status"
  /\ last.cause = "in_progress"
  /\ ActiveQuiz.current_question_index = 1
  /\ ActiveQuiz.score = 1
  /\ Len(ActiveQuiz.questions) = 2

DomainErrors == {"no_active_quiz", "already_completed", "not_completed"}
\* the domain error a reply tells of, read off its words
DomainErrorOf(text) ==
  IF text \in { <<"There's no active quiz. Create a quiz first using create_quiz.">>,
                <<"There's no active quiz.">>, <<"No quiz to show results for.">> }
  THEN "no_active_quiz"
  ELSE IF text = <<"Quiz is not completed yet. Finish the quiz first.">>
  THEN "not_completed"
  ELSE IF text # <<>> /\ text[1] \in { "This quiz is already completed. Your score was ",
                                       "Quiz is already completed." }
  THEN "already_completed"
  ELSE "success"
\* the replies of submit_answer, skip_question and show_quiz_results tell the
\* domain error that ended the call, and no other reply reads like one
DomainErrorsTold ==
  (last.tool \in {"create_quiz", "submit_answer", "skip_question", "show_quiz_results"}
     /\ last.kind = "return")
    => DomainErrorOf(last.text)
         = IF last.cause \in DomainErrors THEN last.cause ELSE "success"

\* C26: NoActiveQuiz, AlreadyCompleted and QuizNotCompleted each give a reply
\* that differs from the replies of the other two and from every success
\* reply, and the AlreadyCompleted reply of submit_answer and of skip_question
\* reports the final score of the quiz.
C26_DomainErrorReplies ==
  /\ DomainErrorsTold
  /\ (last.tool \in {"submit_answer", "skip_question"} /\ last.cause = "already_completed")
       => Contains(last.text, ScoreOutOf(ActiveQuiz))

\* difficulties as given and as they are to be stored
DifficultyTable ==
  { <<s_easy, s_easy>>, <<s_Easy, s_easy>>, <<s_EASY, s_easy>>,
    <<s_medium, s_medium>>, <<s_MeDiUm, s_medium>>,
    <<s_hard, s_hard>>, <<s_Hard, s_hard>>, <<s_HARD, s_hard>>,
    <<s_extreme, s_medium>>, <<s_hard_space, s_medium>>, <<s_empty, s_medium>> }

\* C27: create_quiz stores easy, medium or hard, in lower case, whatever the
\* casing they are given in, and medium for every other string; the difficulty
\* of every quiz and of every history record is one of easy, medium, hard.
C27_DifficultyNormalized ==
  /\ [](/\ \A id \in DOMAIN quizzes : quizzes[id].difficulty \in {s_easy, s_medium, s_hard}
        /\ \A i \in DOMAIN quiz_history :
             quiz_history[i].difficulty \in {s_easy, s_medium, s_hard})
  /\ [][ \A row \in DifficultyTable :
           CreateQuizCalled(<<s_algebra, 5, row[1]>>)
             => /\ quizzes'[current_quiz'[1]].difficulty = row[2]
                /\ quiz_history'[Len(quiz_history')].difficulty = row[2]
       ]_vars

\* a quiz stored as hard, which here was asked for as hard, Hard or HARD,
\* after a quiz stored as easy
C27_Witness ==
  /\ last.tool = "create_quiz"
  /\ HasQuiz
  /\ ActiveQuiz.difficulty = s_hard
  /\ Len(quiz_history) = 2
  /\ quiz_history[1].difficulty = s_easy

\* topics as given and the first question of the catalog list that is to be used
TopicTable ==
  LET algebra == <<"What is 2x + 5 = 15? Solve for x.">>
      geometry == <<"What is the area of a rectangle with length 8 and width 5?">>
      fractions == <<"What is 1/2 + 1/4?">>
  IN { <<s_algebra, algebra>>, <<s_ALGEBRA, algebra>>,
       <<s_geometry, geometry>>, <<s_Geometry, geometry>>, <<s_GeOmEtRy, geometry>>,
       <<s_fractions, fractions>>, <<s_Fractions, fractions>>,
       <<s_calculus, algebra>>, <<s_algebra_space, algebra>>, <<s_empty, algebra>> }

\* C28: create_quiz finds the topic in the catalog whatever its casing, and for
\* a topic that is not in the catalog it takes the algebra questions; for every
\* topic the call returns a reply and leaves a quiz with at least one question
\* as the active one.
C28_TopicLookup ==
  [][ \A row \in TopicTable :
        CreateQuizCalled(<<row[1], 1, s_medium>>)
          => /\ last'.kind = "return"
             /\ current_quiz' # None
             /\ LET quiz == quizzes'[current_quiz'[1]] IN
                  /\ quiz.topic = row[1]
                  /\ Len(quiz.questions) >= 1
                  /\ quiz.questions[1].question_text = row[2]
             /\ Len(quiz_history') = Len(quiz_history) + 1
    ]_vars

\* the quiz asked for on calculus holds the first algebra question
C28_Witness ==
  /\ last.tool = "create_quiz"
  /\ last.kind = "return"
  /\ HasQuiz
  /\ ActiveQuiz.topic = s_calculus
  /\ ActiveQuiz.questions[1].question_text = <<"What is 2x + 5 = 15? Solve for x.">>

\* the number of questions of `quiz` that hold an answer
Answered(quiz) ==
  Cardinality({i \in DOMAIN quiz.questions : quiz.questions[i].user_answer # None})
\* the invariants of a Quiz object: the index within the questions, completed
\* exactly at the end, the questions before the index answered and no others,
\* the score the number of right answers
QuizInvariants(quiz) ==
  /\ quiz.current_question_index \in 0..Len(quiz.questions)
  /\ quiz.completed <=> quiz.current_question_index = Len(quiz.questions)
  /\ \A i \in DOMAIN quiz.questions :
       (quiz.questions[i].user_answer # None) <=> i <= quiz.current_question_index
  /\ quiz.score
       = Cardinality({i \in DOMAIN quiz.questions : quiz.questions[i].is_correct = Some(TRUE)})

\* C29: create_quiz, submit_answer and skip_question change the quiz only in
\* the step that ends at their await, their one suspension point: a call that
\* waits only ends, and its resumption changes no Quiz object, nor which quiz
\* is active, nor the history. So with calls of one session overlapping, every
\* Quiz object keeps its invariants in every state, and each submit_answer or
\* skip_question on a quiz in progress answers one question, moves the index
\* on by one and adds at most one to the score.
C29_ChangesBeforeAwait ==
  /\ [](\A id \in DOMAIN quizzes : QuizInvariants(quizzes[id]))
  /\ [][ /\ \A slot \in Slots : calls[slot] # Idle => calls'[slot] \in {calls[slot], Idle}
         /\ CallResumed
              => /\ UNCHANGED <<current_quiz, quiz_history>>
                 /\ \A id \in DOMAIN quizzes' : quizzes'[id] = quizzes[id]
         /\ (InProgress /\ (SkipQuestionCalled
                             \/ \E answer \in SessionsAnswers : SubmitAnswerCalled(answer)))
              => LET old == ActiveQuiz
                     new == quizzes'[current_quiz[1]]
                 IN /\ UNCHANGED current_quiz
                    /\ new.current_question_index = old.current_question_index + 1
                    /\ Answered(new) = Answered(old) + 1
                    /\ new.score - old.score \in {0, 1}
       ]_vars

\* two calls of the session wait at once: the first answered question 1 and
\* waits for the reply to next_question, the second answered question 2 while
\* the first waited and waits for the reply to complete_quiz
C29_Witness ==
  /\ calls[1] # Idle
  /\ calls[2] # Idle
  /\ calls[1].payload.action = "next_question"
  /\ calls[2].payload.action = "complete_quiz"
  /\ calls[1].quiz = calls[2].quiz
  /\ quizzes[calls[1].quiz].completed

\* C30: the question number in the reply "Moving to question k." of
\* submit_answer or skip_question is progress.current of the next_question
\* request that the call sent, also when another submit_answer or
\* skip_question of the session ran while the call waited for its reply.
C30_ReplyNamesQuestionSent ==
  [][ \A slot \in Slots :
        (/\ calls[slot] # Idle
         /\ calls'[slot] = Idle
         /\ calls[slot].payload.action = "next_question"
         /\ last'.kind = "return"
         /\ last'.cause = "ok")
          => last'.text = <<"Moving to question ">>
                            \o Str(calls[slot].payload.progress.current) \o <<".">>
    ]_vars

\* a step in which a waiting call of `tool` resumes and ends
ResumedOf(tool) ==
  \E slot \in Slots : calls[slot] # Idle /\ calls[slot].tool = tool /\ calls'[slot] = Idle
\* no Quiz object, with its questions, changes or is dropped
QuizzesKept ==
  \A id \in DOMAIN quizzes : id \in DOMAIN quizzes' /\ quizzes'[id] = quizzes[id]

\* C31: a completed quiz is read-only: no step changes a field of a completed
\* Quiz object or of its questions (a create_quiz only replaces it as the
\* active quiz); and get_quiz_status and show_quiz_results, from the call to
\* the end of the await whatever its outcome, change no quiz field, no
\* question field and no history record.
C31_CompletedQuizReadOnly ==
  [][ /\ \A id \in DOMAIN quizzes :
           (quizzes[id].completed /\ id \in DOMAIN quizzes') => quizzes'[id] = quizzes[id]
      /\ (GetQuizStatusCalled \/ ShowQuizResultsCalled \/ ResumedOf("show_quiz_results"))
           => /\ UNCHANGED <<current_quiz, quiz_history>>
              /\ QuizzesKept
    ]_vars

\* show_quiz_results has returned after its request timed out, and the
\* completed quiz still has its score of 1 out of 2
C31_Witness ==
  /\ last.tool = "show_quiz_results"
  /\ last.cause = "timeout"
  /\ HasQuiz
  /\ ActiveQuiz.completed
  /\ ActiveQuiz.score = 1
  /\ ActiveQuiz.current_question_index = 2

\* C32: in every state the score of the active quiz is the number of its
\* questions whose is_correct is true; every question before
\* current_question_index has user_answer and is_correct set, and every
\* question at or after it has neither.
C32_ScoreCountsCorrectAnswers ==
  HasQuiz =>
    LET quiz == ActiveQuiz
        right == {i \in 1..Len(quiz.questions) : quiz.questions[i].is_correct = Some(TRUE)}
    IN /\ quiz.score = Cardinality(right)
       /\ \A i \in 1..Len(quiz.questions) :
            IF i <= quiz.current_question_index
            THEN /\ quiz.questions[i].user_answer # None
                 /\ quiz.questions[i].is_correct \in {Some(TRUE), Some(FALSE)}
            ELSE /\ quiz.questions[i].user_answer = None
                 /\ quiz.questions[i].is_correct = None

\* the first question skipped, the second answered right: score 1 of 2
C32_Witness ==
  /\ HasQuiz
  /\ Len(ActiveQuiz.questions) = 2
  /\ ActiveQuiz.current_question_index = 2
  /\ ActiveQuiz.questions[1].user_answer = Some(<<"SKIPPED">>)
  /\ ActiveQuiz.questions[1].is_correct = Some(FALSE)
  /\ ActiveQuiz.questions[2].is_correct = Some(TRUE)
  /\ ActiveQuiz.score = 1

\* C33: current_quiz, once set, is never reset to None: in every state it is
\* None exactly when the history is empty, no step takes it from a quiz to
\* None, and so get_quiz_status never returns its reply "No active quiz. Last
\* quiz was on ...".
C33_ActiveQuizNeverReset ==
  /\ [](/\ (current_quiz = None) <=> (quiz_history = <<>>)
        /\ last.tool = "get_quiz_status"
             => /\ last.cause # "no_active_quiz"
                /\ last.text[1] # "No active quiz. Last quiz was on ")
  /\ [][(other' = other /\ current_quiz # None) => current_quiz' # None]_vars

\* get_quiz_status asked after the second quiz of the session was completed
\* answers with the final score
C33_Witness ==
  /\ last.tool = "get_quiz_status"
  /\ last.cause = "completed"
  /\ HasQuiz
  /\ ActiveQuiz.completed
  /\ Len(quiz_history) = 2
  /\ quiz_history[2].status = "completed"

\* C34: create_component and toggle_component, like every tool that sends an
\* RPC, await the reply under the RPC timeout and turn a failed exchange into
\* a returned string: a waiting call waits under asyncio.wait_for, and a call
\* that has ended has returned a string, whatever the outcome of its await.
C34_ComponentToolsReturn ==
  /\ \A slot \in Slots :
       (calls[slot] # Idle /\ calls[slot].tool \in {"create_component", "toggle_component"})
         => calls[slot].timed
  /\ last.tool \in {"create_component", "toggle_component"} => last.kind = "return"


\* C35: handle_toggle_component never raises; it returns "success" exactly when
\* it toggled a component, and "error: <message>" when the payload is
\* malformed, has no id or names an id of no existing component, in which case
\* no component changes
C35_ToggleHandlerReplies ==
  [][(\E payload_str \in TogglePayloads : HandleToggleComponent(payload_str))
       => /\ last'.kind = "return"
          /\ last'.text = <<"success">> <=> components' # components
          /\ components' = components => Head(last'.text) = "error: "]_vars


\* the drawing_data of a reply that acknowledges with ok:true
AcknowledgedDrawing ==
  [body \in {CanvasBodyDrawing, CanvasBodyBlank, CanvasBodyNull, BodyOk} |->
     CASE body = CanvasBodyDrawing -> Some([strokes |-> <<(<<0, 0>>), (<<1, 1>>), (<<2, 2>>)>>])
       [] body = CanvasBodyBlank -> Some([strokes |-> <<>>])
       [] body = CanvasBodyNull -> None
       [] OTHER -> Some(<<>>)]

Acknowledged(outcome) == outcome.kind = "reply" /\ outcome.body \in DOMAIN AcknowledgedDrawing

\* C36: last_canvas_drawing changes only when an exchange is acknowledged with
\* ok:true: get_canvas_drawing, also when analyze_math_drawing calls it, then
\* stores the reply's drawing_data and clear_canvas stores absent; a call that ends on no room, no peer, a timeout,
\* a transport error, a malformed reply or ok:false leaves it as it was
C36_DrawingChangesOnAcknowledgement ==
  [][/\ \A slot \in Slots, outcome \in CanvasOutcomes :
          ResumeCanvas(slot, outcome)
            => last_canvas_drawing' =
                 IF ~Acknowledged(outcome) THEN last_canvas_drawing
                 ELSE IF calls[slot].tool = "clear_canvas" THEN None
                 ELSE AcknowledgedDrawing[outcome.body]
     /\ (\A slot \in Slots : calls'[slot] = calls[slot] \/ calls[slot] = Idle)
          => last_canvas_drawing' = last_canvas_drawing]_vars

\* a stored drawing of three strokes survived a get_canvas_drawing whose
\* exchange was not acknowledged
C36_Witness ==
  /\ last.tool = "get_canvas_drawing"
  /\ last.cause \in {"rejected", "rejected_no_error", "timeout", "transport", "not_json",
                     "not_object"}
  /\ last_canvas_drawing = Some(Drawing(3))


\* the failure message of get_canvas_drawing for each way its fetch can fail
FetchFailureMessage ==
  [cause \in {"no_room", "no_peer", "timeout", "transport", "rejected", "rejected_no_error"} |->
     CASE cause = "no_room" -> GetCanvasNoRoomText
       [] cause = "no_peer" -> GetCanvasNoPeerText
       [] cause = "timeout" -> GetCanvasTimeoutText
       [] cause = "transport" -> GetCanvasErrorText
       [] cause = "rejected" -> GetCanvasRejectedPrefix \o CanvasFrontendError
       [] OTHER -> GetCanvasRejectedPrefix \o CanvasUnknownError]

\* C37: analyze_math_drawing sends an RPC only when no drawing is stored (None
\* or an empty one), and one at most; when that fetch fails (no room, no peer,
\* timeout, transport error, ok:false) it returns the fetch's own failure
\* message, not an analysis and not the "no drawing on the canvas" reply
C37_AnalyzeReturnsFetchFailure ==
  [][/\ \A slot \in Slots :
          (calls[slot] = Idle /\ calls'[slot] # Idle
             /\ calls'[slot].tool = "analyze_math_drawing")
            => ~Truthy(last_canvas_drawing) /\ calls'[slot].sent = 1
     /\ (last'.tool = "analyze_math_drawing" /\ last'.cause \in DOMAIN FetchFailureMessage)
          => last'.text = FetchFailureMessage[last'.cause]]_vars

=============================================================================
